---- MODULE Spec2Model ----
(***************************************************************************)
(* A model of the zcad-rs drawing loader: the Document data model of       *)
(* zcad-core (layers, entities, blocks, block-handle aliases), the DXF     *)
(* token reader of zcad-io (line pairs with a one-slot pushback) and the   *)
(* section dispatcher with its record sub-parsers.                         *)
(*                                                                         *)
(* Four specifications share the variables:                                *)
(*   SpecDoc    - a client calls the Document's mutating operations in any *)
(*                order;                                                   *)
(*   SpecReader - a client calls next_pair / put_back on a DxfReader built *)
(*                over a fixed source text;                                *)
(*   SpecParse  - DxfParser::parse runs over a source text, one step per   *)
(*                next_pair call;                                          *)
(*   SpecFile   - a sequence of BLOCK and MULTILEADER records is loaded    *)
(*                record by record into a Document.                        *)
(***************************************************************************)
EXTENDS Integers, Sequences, FiniteSets, TLC

VARIABLES
    doc,        \* the Document: layers, entities, next_entity_id, blocks, block_handles
    returned,   \* the EntityIds returned by the add operations, in call order
    file,       \* SpecFile: the records of the file being loaded, in file order
    fpos,       \* SpecFile: the number of records loaded so far
    source,     \* the lines of the text the DxfReader was built over
    reader,     \* the DxfReader: lines (those not yet read), buffer, line_number
    rcall,      \* SpecReader: the reader operation of the last step and its argument
    trail,      \* SpecReader: the names of the last three reader operations
    ret,        \* SpecReader: what the last reader operation returned
    status,     \* "ok", or "panicked" once a panic unwinds
    stack,      \* Spec: the call stack of the parser, one frame per active function
    result,     \* Spec: "running", or what parse returned: "ok" (a Document) or "err"
    error,      \* Spec: the DxfError parse returned, if any
    raised,     \* Spec: the errors raised so far, each with where it was raised
    saw_eof,    \* Spec: the dispatcher has read a group-0 EOF record at top level
    exhausted,  \* Spec: the source text has ended
    scene       \* SpecScene: the Scene of the engine: document, selected, viewport

docVars == <<doc, returned>>

fileVars == <<doc, returned, file, fpos>>

readerVars == <<source, reader, rcall, trail, ret, status>>

clientVars == <<source, rcall, trail, ret>>

parseVars == <<stack, result, error, raised, saw_eof, exhausted>>

vars == <<doc, returned, file, fpos, source, reader, rcall, trail, ret, status,
          stack, result, error, raised, saw_eof, exhausted, scene>>

\* Option::None for the optional strings and records of the program.
None == "<none>"

-----------------------------------------------------------------------------
(* Bounds of the model and the value universes the inputs are drawn from.  *)

MaxEntities == 2

MaxFile == 3

MaxSource == 4

MaxLines == 18

LayerNames == {"0", "L1"}

AttrLayers == {"L2"}

BlockNames == {"B1", "B2"}

Handles == {"h1", "h2"}

-----------------------------------------------------------------------------
(* zcad-core: the Document data model.                                     *)

\* Layer::new: a layer starts visible.
Layer_new(name) ==
    [name |-> name, is_visible |-> TRUE]

\* Document::new: Default::default() followed by ensure_layer("0").
Document_new ==
    [layers |-> ("0" :> Layer_new("0")),
     entities |-> <<>>,
     next_entity_id |-> 0,
     blocks |-> <<>>,
     block_handles |-> <<>>,
     image_definitions |-> <<>>,
     image_def_reactors |-> <<>>,
     image_dictionary |-> <<>>,
     raster_image_variables |-> <<>>]

\* ensure_layer that assigns the table instead of inserting into it.
ensure_layer_assign(d, name) ==
    IF name \in DOMAIN d.layers
    THEN d
    ELSE [d EXCEPT !.layers = (name :> Layer_new(name))]

\* Document::ensure_layer: entry(key).or_insert_with(Layer::new).
ensure_layer(d, name) ==
    IF name \in DOMAIN d.layers
    THEN d
    ELSE [d EXCEPT !.layers = (name :> Layer_new(name)) @@ d.layers]

\* next_id without the increment.
next_id_stuck(d) ==
    [id |-> d.next_entity_id, doc |-> d]

\* Document::next_id: returns the counter and increments it.
next_id(d) ==
    [id |-> d.next_entity_id,
     doc |-> [d EXCEPT !.next_entity_id = d.next_entity_id + 1]]

\* The tail of add_<kind> with the pair put in front of the stored ones.
push_entity_front(d, entity) ==
    LET n == next_id(d)
    IN  [id |-> n.id,
         doc |-> [n.doc EXCEPT !.entities = <<[id |-> n.id, entity |-> entity]>> \o n.doc.entities]]

\* The tail every add_<kind> shares: allocate the id, push (id, entity), return id.
push_entity(d, entity) ==
    LET n == next_id(d)
    IN  [id |-> n.id,
         doc |-> [n.doc EXCEPT !.entities = Append(n.doc.entities, [id |-> n.id, entity |-> entity])]]

\* add_line without the ensure_layer call.
add_line_no_layer(d, start, end, layer) ==
    push_entity(d, [kind |-> "Line", start |-> start, end |-> end, layer |-> layer])

\* Document::add_line. A point is a pair <<x, y>>.
add_line(d, start, end, layer) ==
    push_entity(ensure_layer(d, layer),
                [kind |-> "Line", start |-> start, end |-> end, layer |-> layer])

\* Document::add_face3d.
add_face3d(d, vertices, layer) ==
    push_entity(ensure_layer(d, layer),
                [kind |-> "Face3D", layer |-> layer, vertices |-> vertices])

\* Document::block: Some(definition) exactly when the name is a key of the block table.
block_is_some(d, name) ==
    name \in DOMAIN d.blocks

\* Document::block, on a registered name.
block(d, name) ==
    d.blocks[name]

\* The Attribute synthesized from an AttributeDefinition in add_block_reference.
AttributeOf(def) ==
    [tag |-> def.tag, text |-> def.default_text, layer |-> def.layer]

RECURSIVE ensure_layers(_, _)
\* for x in names { self.ensure_layer(x) }
ensure_layers(d, names) ==
    IF names = <<>> THEN d
    ELSE ensure_layers(ensure_layer(d, Head(names)), Tail(names))

\* add_block_reference that stores the attribute list as it was passed.
add_block_reference_as_passed(d, name, attributes, layer) ==
    LET d1 == ensure_layer(d, layer)
        d2 == ensure_layers(d1, [i \in 1..Len(attributes) |-> attributes[i].layer])
    IN  push_entity(d2, [kind |-> "BlockReference", layer |-> layer, name |-> name,
                         attributes |-> attributes])

\* Document::add_block_reference.
add_block_reference(d, name, attributes, layer) ==
    LET d1 == ensure_layer(d, layer)
        resolved_attributes ==
            IF attributes = <<>>
            THEN IF block_is_some(d1, name)
                 THEN [i \in 1..Len(block(d1, name).attributes) |->
                            AttributeOf(block(d1, name).attributes[i])]
                 ELSE <<>>
            ELSE attributes
        d2 == ensure_layers(d1, [i \in 1..Len(resolved_attributes) |-> resolved_attributes[i].layer])
    IN  push_entity(d2, [kind |-> "BlockReference", layer |-> layer, name |-> name,
                         attributes |-> resolved_attributes])

\* resolve_block_content_name_from_handles that takes the name of the alias table also
\* where the content already has a name.
resolve_block_content_name_overwrite(handles, blk) ==
    IF blk.block_handle # None /\ blk.block_handle \in DOMAIN handles
    THEN [blk EXCEPT !.block_name = handles[blk.block_handle]]
    ELSE blk

\* Document::resolve_block_content_name_from_handles.
resolve_block_content_name_from_handles(handles, blk) ==
    IF blk.block_name = None /\ blk.block_handle # None /\ blk.block_handle \in DOMAIN handles
    THEN [blk EXCEPT !.block_name = handles[blk.block_handle]]
    ELSE blk

\* The body of both loops over MLeaderContent::Block: resolve a Block content, keep any other.
resolve_content(handles, content) ==
    IF content.type = "Block"
    THEN [content EXCEPT !.block = resolve_block_content_name_from_handles(handles, content.block)]
    ELSE content

\* Document::add_mleader.
add_mleader(d, layer, content) ==
    LET d1 == ensure_layer(d, layer)
    IN  push_entity(d1, [kind |-> "MLeader", layer |-> layer,
                         content |-> resolve_content(d1.block_handles, content)])

\* update_mleader_block_names that rescans nothing.
update_mleader_block_names_skip(d) ==
    d

\* Document::update_mleader_block_names.
update_mleader_block_names(d) ==
    LET handles == d.block_handles
    IN  [d EXCEPT !.entities =
            [i \in 1..Len(d.entities) |->
                IF d.entities[i].entity.kind = "MLeader"
                THEN [d.entities[i] EXCEPT !.entity.content = resolve_content(handles, @)]
                ELSE d.entities[i]]]

\* Entity::layer_name.
layer_name(entity) ==
    entity.layer

\* HashMap::insert: the new value replaces an earlier one under the same key.
MapInsert(m, k, v) ==
    (k :> v) @@ m

\* add_block_definition_with_handle that also gives the stored references of the block,
\* where they hold no attribute, the attributes of the new definition.
add_block_definition_with_handle_backfill(d, definition, block_handle, block_record_handle) ==
    LET name == definition.name
        d1 == ensure_layers(d, [i \in 1..Len(definition.entities) |-> layer_name(definition.entities[i])])
        d2 == ensure_layers(d1, [i \in 1..Len(definition.attributes) |-> definition.attributes[i].layer])
        d3 == IF block_handle # None
              THEN [d2 EXCEPT !.block_handles = MapInsert(@, block_handle, name)]
              ELSE d2
        d4 == IF block_record_handle # None
              THEN [d3 EXCEPT !.block_handles = MapInsert(@, block_record_handle, name)]
              ELSE d3
        updated == block_handle # None \/ block_record_handle # None
        d5 == IF updated THEN update_mleader_block_names(d4) ELSE d4
        filled(e) ==
            IF e.kind = "BlockReference" /\ e.name = name /\ e.attributes = <<>>
            THEN [e EXCEPT !.attributes = [i \in 1..Len(definition.attributes) |->
                                                AttributeOf(definition.attributes[i])]]
            ELSE e
    IN  [d5 EXCEPT !.blocks = MapInsert(@, name, definition),
                   !.entities = [i \in 1..Len(@) |-> [@[i] EXCEPT !.entity = filled(@)]]]

\* Document::add_block_definition_with_handle.
add_block_definition_with_handle(d, definition, block_handle, block_record_handle) ==
    LET name == definition.name
        d1 == ensure_layers(d, [i \in 1..Len(definition.entities) |-> layer_name(definition.entities[i])])
        d2 == ensure_layers(d1, [i \in 1..Len(definition.attributes) |-> definition.attributes[i].layer])
        d3 == IF block_handle # None
              THEN [d2 EXCEPT !.block_handles = MapInsert(@, block_handle, name)]
              ELSE d2
        d4 == IF block_record_handle # None
              THEN [d3 EXCEPT !.block_handles = MapInsert(@, block_record_handle, name)]
              ELSE d3
        updated == block_handle # None \/ block_record_handle # None
        d5 == IF updated THEN update_mleader_block_names(d4) ELSE d4
    IN  [d5 EXCEPT !.blocks = MapInsert(@, name, definition)]

\* Document::add_block_definition.
add_block_definition(d, definition) ==
    add_block_definition_with_handle(d, definition, None, None)

\* Document::blocks: HashMap::values yields the definitions in an order the map chooses,
\* so every arrangement of them is a sequence the iterator can yield.
blocks(d) ==
    LET names == DOMAIN d.blocks
        orders == {o \in [1..Cardinality(names) -> names] :
                        \A i, j \in 1..Cardinality(names) : i # j => o[i] # o[j]}
    IN  {[i \in 1..Cardinality(names) |-> d.blocks[o[i]]] : o \in orders}

\* Document::entities: the stored (id, entity) pairs in the order of the Vec.
entities(d) ==
    d.entities

\* Document::entity: the entity of the first stored pair with that id, as Option.
Document_entity(d, id) ==
    LET found == {i \in 1..Len(d.entities) : d.entities[i].id = id}
    IN  IF found = {} THEN <<>>
        ELSE <<d.entities[CHOOSE i \in found : \A j \in found : i <= j].entity>>

\* Document::add_arc.
add_arc(d, center, radius, start_angle, end_angle, layer) ==
    push_entity(ensure_layer(d, layer),
                [kind |-> "Arc", center |-> center, radius |-> radius,
                 start_angle |-> start_angle, end_angle |-> end_angle, layer |-> layer])

\* Document::add_hatch.
add_hatch(d, pattern_name, is_solid, loops, gradient, layer) ==
    push_entity(ensure_layer(d, layer),
                [kind |-> "Hatch", pattern_name |-> pattern_name, is_solid |-> is_solid,
                 loops |-> loops, gradient |-> gradient, layer |-> layer])

\* Document::add_raster_image (the placement, the size and the display options of the
\* image are left out).
add_raster_image(d, layer, image_def_handle, clip) ==
    push_entity(ensure_layer(d, layer),
                [kind |-> "RasterImage", layer |-> layer,
                 image_def_handle |-> image_def_handle, clip |-> clip])

\* Document::add_wipeout (the placement, the size and the display options are left out).
add_wipeout(d, layer, clip) ==
    push_entity(ensure_layer(d, layer), [kind |-> "Wipeout", layer |-> layer, clip |-> clip])

\* Document::add_raster_image_definition: HashMap::insert under the definition's handle.
add_raster_image_definition(d, definition) ==
    [d EXCEPT !.image_definitions = (definition.handle :> definition) @@ @]

\* Document::set_raster_image_variables (an Option is <<>> or <<x>>).
set_raster_image_variables(d, variables) ==
    [d EXCEPT !.raster_image_variables = <<variables>>]

\* Document::add_image_def_reactor: HashMap::insert under the reactor's handle.
add_image_def_reactor(d, reactor) ==
    [d EXCEPT !.image_def_reactors = (reactor.handle :> reactor) @@ @]

\* Document::set_image_dictionary (an Option is <<>> or <<x>>).
set_image_dictionary(d, dictionary) ==
    [d EXCEPT !.image_dictionary = <<dictionary>>]

\* Document::add_entity: dispatch by variant to the typed operation.
add_entity(d, entity) ==
    CASE entity.kind = "Line" -> add_line(d, entity.start, entity.end, entity.layer)
      [] entity.kind = "Face3D" -> add_face3d(d, entity.vertices, entity.layer)
      [] entity.kind = "BlockReference" ->
            add_block_reference(d, entity.name, entity.attributes, entity.layer)
      [] entity.kind = "MLeader" -> add_mleader(d, entity.layer, entity.content)
      [] entity.kind = "Arc" ->
            add_arc(d, entity.center, entity.radius, entity.start_angle, entity.end_angle,
                    entity.layer)
      [] entity.kind = "Hatch" ->
            add_hatch(d, entity.pattern_name, entity.is_solid, entity.loops, entity.gradient,
                      entity.layer)
      [] entity.kind = "RasterImage" ->
            add_raster_image(d, entity.layer, entity.image_def_handle, entity.clip)
      [] entity.kind = "Wipeout" -> add_wipeout(d, entity.layer, entity.clip)

-----------------------------------------------------------------------------
(* zcad-io: the token reader DxfReader.                                    *)

\* The lines a source text is made of. " 8 " is a group code with surrounding blanks,
\* "A" a line that is no integer, "E\r" a line that ends in a carriage return.
LineAlphabet == {"0", " 8 ", "A", "E\r"}

\* str::trim on the lines of the alphabet.
Trim(line) ==
    IF line = " 8 " THEN "8" ELSE line

\* str::parse::<i32>: the integers the trimmed lines of the alphabets denote.
ParseI32 ==
    ("0" :> 0) @@ ("2" :> 2) @@ ("5" :> 5) @@ ("8" :> 8) @@ ("10" :> 10) @@ ("11" :> 11)
        @@ ("20" :> 20) @@ ("21" :> 21) @@ ("41" :> 41) @@ ("42" :> 42) @@ ("50" :> 50)
        @@ ("62" :> 62) @@ ("330" :> 330) @@ ("12" :> 12) @@ ("15" :> 15) @@ ("22" :> 22)
        @@ ("25" :> 25) @@ ("30" :> 30) @@ ("43" :> 43) @@ ("91" :> 91) @@ ("172" :> 172)
        @@ ("176" :> 176) @@ ("304" :> 304) @@ ("344" :> 344) @@ ("1" :> 1) @@ ("70" :> 70)
        @@ ("71" :> 71) @@ ("72" :> 72) @@ ("3" :> 3) @@ ("40" :> 40) @@ ("51" :> 51)
        @@ ("73" :> 73) @@ ("92" :> 92) @@ ("93" :> 93) @@ ("450" :> 450) @@ ("452" :> 452)
        @@ ("100" :> 100) @@ ("102" :> 102) @@ ("350" :> 350) @@ ("302" :> 302)
        @@ ("303" :> 303) @@ ("305" :> 305) @@ ("14" :> 14) @@ ("24" :> 24) @@ ("76" :> 76)
        @@ ("90" :> 90) @@ ("290" :> 290) @@ ("340" :> 340)

\* str::trim_end_matches('\r') on the lines of the alphabet.
TrimEndCR(line) ==
    IF line = "E\r" THEN "E" ELSE line

\* DxfReader::new.
DxfReader_new(src) ==
    [lines |-> src, buffer |-> <<>>, line_number |-> 0]

\* Ok(Some((code, value))).
OkSome(code, value) ==
    [tag |-> "Some", pair |-> [code |-> code, value |-> value]]

\* Ok(None).
OkNone == [tag |-> "None"]

\* Err(DxfError::Invalid) raised by the reader; the message names a line number.
ErrReader(what, line) ==
    [tag |-> "Err", kind |-> "Invalid", what |-> what, line |-> line]

\* next_pair that reports the number of the value line for a code that is no integer.
next_pair_value_line(r) ==
    IF r.buffer # <<>>
    THEN [reader |-> [r EXCEPT !.buffer = <<>>], ret |-> [tag |-> "Some", pair |-> r.buffer[1]]]
    ELSE IF r.lines = <<>>
    THEN [reader |-> r, ret |-> OkNone]
    ELSE IF Len(r.lines) = 1
    THEN [reader |-> [r EXCEPT !.lines = <<>>, !.line_number = @ + 1],
          ret |-> ErrReader("missing value line", r.line_number + 1)]
    ELSE LET r2 == [r EXCEPT !.lines = Tail(Tail(@)), !.line_number = @ + 2]
             code_line == r.lines[1]
             value_line == r.lines[2]
         IN  IF Trim(code_line) \notin DOMAIN ParseI32
             THEN [reader |-> r2, ret |-> ErrReader("code is no integer", r2.line_number)]
             ELSE [reader |-> r2, ret |-> OkSome(ParseI32[Trim(code_line)], TrimEndCR(value_line))]

\* next_pair that returns the buffered pair without emptying the slot.
next_pair_keep_buffer(r) ==
    IF r.buffer # <<>>
    THEN [reader |-> r, ret |-> [tag |-> "Some", pair |-> r.buffer[1]]]
    ELSE IF r.lines = <<>>
    THEN [reader |-> r, ret |-> OkNone]
    ELSE IF Len(r.lines) = 1
    THEN [reader |-> [r EXCEPT !.lines = <<>>, !.line_number = @ + 1],
          ret |-> ErrReader("missing value line", r.line_number + 1)]
    ELSE LET r2 == [r EXCEPT !.lines = Tail(Tail(@)), !.line_number = @ + 2]
             code_line == r.lines[1]
             value_line == r.lines[2]
         IN  IF Trim(code_line) \notin DOMAIN ParseI32
             THEN [reader |-> r2, ret |-> ErrReader("code is no integer", r2.line_number - 1)]
             ELSE [reader |-> r2, ret |-> OkSome(ParseI32[Trim(code_line)], TrimEndCR(value_line))]

\* DxfReader::next_pair: the reader after the call and the value returned.
next_pair(r) ==
    IF r.buffer # <<>>
    THEN [reader |-> [r EXCEPT !.buffer = <<>>], ret |-> [tag |-> "Some", pair |-> r.buffer[1]]]
    ELSE IF r.lines = <<>>
    THEN [reader |-> r, ret |-> OkNone]
    ELSE IF Len(r.lines) = 1
    THEN [reader |-> [r EXCEPT !.lines = <<>>, !.line_number = @ + 1],
          ret |-> ErrReader("missing value line", r.line_number + 1)]
    ELSE LET r2 == [r EXCEPT !.lines = Tail(Tail(@)), !.line_number = @ + 2]
             code_line == r.lines[1]
             value_line == r.lines[2]
         IN  IF Trim(code_line) \notin DOMAIN ParseI32
             THEN [reader |-> r2, ret |-> ErrReader("code is no integer", r2.line_number - 1)]
             ELSE [reader |-> r2, ret |-> OkSome(ParseI32[Trim(code_line)], TrimEndCR(value_line))]

\* put_back that overwrites a pair already held.
put_back_overwrite(r, pair) ==
    [reader |-> [r EXCEPT !.buffer = <<pair>>], panicked |-> FALSE]

\* DxfReader::put_back: panics when the slot is full, fills it otherwise.
put_back(r, pair) ==
    IF r.buffer # <<>>
    THEN [reader |-> r, panicked |-> TRUE]
    ELSE [reader |-> [r EXCEPT !.buffer = <<pair>>], panicked |-> FALSE]

-----------------------------------------------------------------------------
(* SpecReader: the reader under a client that stops at the first Err, as   *)
(* every caller in the parser does (each call site is `next_pair()?`).     *)

SourcesUpTo(n) ==
    UNION {[1..k -> LineAlphabet] : k \in 0..n}

\* The reader of the specifications that do not read.
ReaderIdle ==
    /\ source = <<>>
    /\ reader = DxfReader_new(<<>>)
    /\ rcall = [op |-> "new"]
    /\ trail = <<>>
    /\ ret = [tag |-> "Unit"]
    /\ status = "ok"

\* The parser of the specifications that do not parse.
ParserIdle ==
    /\ stack = <<>>
    /\ result = "running"
    /\ error = <<>>
    /\ raised = {}
    /\ saw_eof = FALSE
    /\ exhausted = FALSE

DEFAULT_ZOOM == 1

\* ViewportState::default.
ViewportState_default ==
    [center |-> <<0, 0>>, zoom |-> DEFAULT_ZOOM]

\* Scene::new.
Scene_new ==
    [document |-> Document_new, selected |-> {}, viewport |-> ViewportState_default]

\* The scene of the specifications that do not use the engine.
SceneIdle ==
    scene = Scene_new

InitReader ==
    /\ doc = Document_new
    /\ returned = <<>>
    /\ file = <<>>
    /\ fpos = 0
    /\ source \in SourcesUpTo(MaxSource)
    /\ reader = DxfReader_new(source)
    /\ rcall = [op |-> "new"]
    /\ trail = <<>>
    /\ ret = [tag |-> "Unit"]
    /\ status = "ok"
    /\ ParserIdle
    /\ SceneIdle

\* The last three operation names, the newest last.
Trail(op) ==
    LET t == Append(trail, op)
    IN  IF Len(t) > 3 THEN Tail(t) ELSE t

\* The pairs a client pushes back: the pair it has just read, or one of two fixed pairs.
PutBackArgs ==
    {[code |-> 0, value |-> "A"], [code |-> 8, value |-> "E"]}
        \cup (IF ret.tag = "Some" THEN {ret.pair} ELSE {})

CallNextPair ==
    /\ status = "ok"
    /\ ret.tag # "Err"
    /\ LET n == next_pair(reader)
       IN  /\ reader' = n.reader
           /\ ret' = n.ret
    /\ rcall' = [op |-> "next_pair"]
    /\ trail' = Trail("next_pair")
    /\ UNCHANGED <<source, status>>
    /\ UNCHANGED <<fileVars, parseVars, scene>>

CallPutBack ==
    /\ status = "ok"
    /\ ret.tag # "Err"
    /\ \E pair \in PutBackArgs :
        LET p == put_back(reader, pair)
        IN  /\ reader' = p.reader
            /\ status' = IF p.panicked THEN "panicked" ELSE "ok"
            /\ ret' = [tag |-> "Unit"]
            /\ rcall' = [op |-> "put_back", pair |-> pair, slot_was_full |-> reader.buffer # <<>>]
    /\ trail' = Trail("put_back")
    /\ UNCHANGED source
    /\ UNCHANGED <<fileVars, parseVars, scene>>

NextReader ==
    \/ CallNextPair
    \/ CallPutBack

SpecReader == InitReader /\ [][NextReader]_vars

\* The number of source lines the reader has consumed.
Consumed == Len(source) - Len(reader.lines)

\* The k-th pair of the source text: lines 2k-1 and 2k.
SourcePair(k) ==
    [code |-> ParseI32[Trim(source[2 * k - 1])], value |-> TrimEndCR(source[2 * k])]

\* C6: a next_pair that finds a pushed-back pair p returns exactly p and consumes no input
\* line; a next_pair that reads the input returns the pair at the reader's position, so the
\* call after the pushed-back pair was returned delivers the pair that follows in the input.
C6_PushbackRoundTrip ==
    [][rcall'.op = "next_pair" =>
        IF rcall.op = "put_back" /\ status = "ok"
        THEN /\ ret' = [tag |-> "Some", pair |-> rcall.pair]
             /\ reader'.lines = reader.lines
             /\ reader'.line_number = reader.line_number
             /\ reader'.buffer = <<>>
        ELSE /\ reader.buffer = <<>>
             /\ ret'.tag = "Some" =>
                    /\ ret'.pair = SourcePair((Consumed \div 2) + 1)
                    /\ Len(reader'.lines) = Len(reader.lines) - 2]_vars

\* C6 witness: a pushback, the call that returned the pushed-back pair, and the call after
\* it, which returned the second pair of the source.
C6_Witness ==
    /\ trail = <<"put_back", "next_pair", "next_pair">>
    /\ Consumed = 4
    /\ ret.tag = "Some"
    /\ ret.pair = SourcePair(2)

\* C7: put_back on a full lookahead slot panics and leaves the held pair in the slot.
C7_DoublePushbackFailsLoudly ==
    [][(rcall'.op = "put_back" /\ reader.buffer # <<>>) =>
        (status' = "panicked" /\ reader'.buffer = reader.buffer)]_vars

\* C7 witness: put_back was called with a pair other than the one held, and panicked.
C7_Witness ==
    /\ status = "panicked"
    /\ rcall.op = "put_back"
    /\ reader.buffer # <<rcall.pair>>

\* C8: a double pushback is surfaced as an error result, not as a panic.
C8_DoublePushbackIsErrorResult ==
    (rcall.op = "put_back" /\ rcall.slot_was_full) => (status = "ok" /\ ret.tag = "Err")

\* C9: next_pair returns None only when nothing is buffered and the input is exhausted at a
\* pair boundary; a code line without a value line, and a code line that is no integer, give
\* an Invalid error that names the number of that code line.
C9_NoneOnlyAtPairBoundary ==
    [][rcall'.op = "next_pair" =>
        /\ ret'.tag = "None" =>
                (reader.buffer = <<>> /\ reader.lines = <<>> /\ Len(source) % 2 = 0)
        /\ (reader.buffer = <<>> /\ Len(reader.lines) = 1) =>
                (ret'.tag = "Err" /\ ret'.kind = "Invalid" /\ ret'.line = Len(source))
        /\ (reader.buffer = <<>> /\ Len(reader.lines) >= 2
                /\ Trim(reader.lines[1]) \notin DOMAIN ParseI32) =>
                (ret'.tag = "Err" /\ ret'.kind = "Invalid" /\ ret'.line = Consumed + 1)]_vars

\* C9 witness: the second pair's code line, line 3, is no integer and the error names line 3.
C9_Witness ==
    /\ ret.tag = "Err"
    /\ ret.what = "code is no integer"
    /\ ret.line = 3
    /\ source[3] = "A"

-----------------------------------------------------------------------------
(* The values a client of the Document passes in.                          *)

BlockContents ==
    {[block_handle |-> h, block_name |-> None] : h \in Handles \cup {None}}
        \cup {[block_handle |-> "h1", block_name |-> "B2"]}

MLeaderContents ==
    {[type |-> "None"]}
        \cup {[type |-> "Block", block |-> b] : b \in BlockContents}

ExplicitAttributes ==
    {<<>>} \cup {<<[tag |-> "T", text |-> "x", layer |-> l]>> : l \in AttrLayers}

AttributeDefinitions ==
    {<<>>} \cup {<<[tag |-> "ID", default_text |-> "100", layer |-> l],
                    [tag |-> "NM", default_text |-> "n", layer |-> l]>> : l \in AttrLayers}

BlockEntities ==
    {<<>>,
     <<[kind |-> "Line", start |-> <<0, 0>>, end |-> <<1, 1>>, layer |-> "L3"]>>,
     <<[kind |-> "BlockReference", layer |-> "L3", name |-> "B2",
        attributes |-> <<[tag |-> "T", text |-> "x", layer |-> "L4"]>>]>>}

\* A block is either empty or, for B1, holds one entity and two attribute definitions.
BlockDefinitions ==
    {[name |-> n, base_point |-> <<0, 0>>, entities |-> <<>>, attributes |-> <<>>] : n \in BlockNames}
        \cup {[name |-> n, base_point |-> <<0, 0>>, entities |-> es, attributes |-> as] :
                n \in {"B1"}, es \in BlockEntities \ {<<>>}, as \in AttributeDefinitions \ {<<>>}}

\* One entity of each kind add_entity dispatches on.
InputEntities ==
    {[kind |-> "Line", start |-> <<0, 0>>, end |-> <<1, 1>>, layer |-> "L1"],
     [kind |-> "MLeader", layer |-> "0",
      content |-> [type |-> "Block", block |-> [block_handle |-> "h2", block_name |-> None]]],
     [kind |-> "BlockReference", layer |-> "0", name |-> "B1", attributes |-> <<>>]}

-----------------------------------------------------------------------------
(* SpecDoc: the Document under an arbitrary client.                        *)

InitDoc ==
    /\ doc = Document_new
    /\ returned = <<>>
    /\ file = <<>>
    /\ fpos = 0
    /\ ReaderIdle
    /\ ParserIdle
    /\ SceneIdle

\* Record the result of an add operation: the new document and the returned id.
Added(r) ==
    /\ doc' = r.doc
    /\ returned' = Append(returned, r.id)
    /\ UNCHANGED <<file, fpos, readerVars, parseVars, scene>>

AddLine ==
    /\ Len(doc.entities) < MaxEntities
    /\ \E layer \in LayerNames :
        Added(add_line(doc, <<0, 0>>, <<1, 1>>, layer))

AddMLeader ==
    /\ Len(doc.entities) < MaxEntities
    /\ \E content \in MLeaderContents :
        Added(add_mleader(doc, "0", content))

AddBlockReference ==
    /\ Len(doc.entities) < MaxEntities
    /\ \E name \in BlockNames, attributes \in ExplicitAttributes :
        Added(add_block_reference(doc, name, attributes, "0"))

AddEntity ==
    /\ Len(doc.entities) < MaxEntities
    /\ \E entity \in InputEntities :
        Added(add_entity(doc, entity))

EnsureLayer ==
    \E name \in LayerNames :
        /\ doc' = ensure_layer(doc, name)
        /\ UNCHANGED <<returned, file, fpos, readerVars, parseVars, scene>>

AddBlockDefinition ==
    \E definition \in BlockDefinitions :
        /\ doc' = add_block_definition(doc, definition)
        /\ UNCHANGED <<returned, file, fpos, readerVars, parseVars, scene>>

AddBlockDefinitionWithHandle ==
    \E definition \in BlockDefinitions, bh \in Handles \cup {None}, rh \in {None, "h2"} :
        /\ bh # None \/ rh # None
        /\ doc' = add_block_definition_with_handle(doc, definition, bh, rh)
        /\ UNCHANGED <<returned, file, fpos, readerVars, parseVars, scene>>

NextDoc ==
    \/ AddLine
    \/ AddMLeader
    \/ AddBlockReference
    \/ AddEntity
    \/ EnsureLayer
    \/ AddBlockDefinition
    \/ AddBlockDefinitionWithHandle

SpecDoc == InitDoc /\ [][NextDoc]_vars

\* The stored entities, without their ids.
StoredEntities == [i \in 1..Len(doc.entities) |-> doc.entities[i].entity]

\* C2: the layer name of every stored entity is a key of the layer table.
C2_EntityLayersExist ==
    \A i \in 1..Len(doc.entities) : layer_name(doc.entities[i].entity) \in DOMAIN doc.layers

\* C2 witness: an entity stored on a layer other than the initial "0", which its add created.
C2_Witness ==
    \E i \in 1..Len(doc.entities) :
        /\ layer_name(doc.entities[i].entity) = "L1"
        /\ "L1" \in DOMAIN doc.layers

\* C3: the ids returned by successive add operations are 0, 1, 2, ... in call order,
\* each strictly greater than every earlier one, and the i-th stored entity keeps the i-th id.
C3_IdsCountUp ==
    /\ \A i \in 1..Len(returned) : returned[i] = i - 1
    /\ \A i, j \in 1..Len(returned) : i < j => returned[i] < returned[j]
    /\ Len(doc.entities) = Len(returned)
    /\ \A i \in 1..Len(returned) : doc.entities[i].id = returned[i]

\* C3 witness: two add operations have returned.
C3_Witness ==
    Len(returned) >= 2 /\ returned[2] = 1

\* An MLeader with block content whose handle is a key of the alias table.
HasAliasedHandle(entity) ==
    /\ entity.kind = "MLeader"
    /\ entity.content.type = "Block"
    /\ entity.content.block.block_handle \in DOMAIN doc.block_handles

\* C4: every stored MLeader whose block content carries a handle that is a key of the
\* block-handle alias table has a resolved block name.
C4_AliasedMLeadersResolved ==
    \A i \in 1..Len(doc.entities) :
        HasAliasedHandle(doc.entities[i].entity)
            => doc.entities[i].entity.content.block.block_name # None

\* C4 witness: an MLeader added without a name holds the name its handle is registered for.
C4_Witness ==
    \E i \in 1..Len(doc.entities) :
        /\ HasAliasedHandle(doc.entities[i].entity)
        /\ doc.entities[i].entity.content.block.block_handle = "h2"
        /\ doc.entities[i].entity.content.block.block_name
                = doc.block_handles["h2"]

-----------------------------------------------------------------------------
(* SpecFile: a file seen as its sequence of BLOCK and MULTILEADER records. *)
(* parse_blocks hands each named block to add_block_definition_with_handle *)
(* with the handles its record carried; parse_entities hands each          *)
(* MULTILEADER to add_entity with block content of that handle and no name.*)

BlockRecords ==
    {[rec |-> "BLOCK", name |-> n, block_handle |-> bh, record_handle |-> rh] :
        n \in BlockNames, bh \in Handles \cup {None}, rh \in {None, "h2"}}

MLeaderRecords ==
    {[rec |-> "MULTILEADER", handle |-> h] : h \in Handles}

FileRecords == BlockRecords \cup MLeaderRecords

\* Sequences of at most n records.
FilesUpTo(n) ==
    UNION {[1..k -> FileRecords] : k \in 0..n}

\* The entity parse_mleader builds for a record with a block handle (block_name: None).
MLeaderEntityOf(r) ==
    [kind |-> "MLeader", layer |-> "0",
     content |-> [type |-> "Block", block |-> [block_handle |-> r.handle, block_name |-> None]]]

\* The definition parse_block_definition returns for a named block.
BlockDefinitionOf(r) ==
    [name |-> r.name, base_point |-> <<0, 0>>, entities |-> <<>>, attributes |-> <<>>]

\* What the section loops do with one record.
load_record(d, r) ==
    IF r.rec = "BLOCK"
    THEN add_block_definition_with_handle(d, BlockDefinitionOf(r), r.block_handle, r.record_handle)
    ELSE add_entity(d, MLeaderEntityOf(r)).doc

RECURSIVE load_all(_, _)
\* The Document after the records of f have been loaded in order.
load_all(d, f) ==
    IF f = <<>> THEN d ELSE load_all(load_record(d, Head(f)), Tail(f))

InitFile ==
    /\ doc = Document_new
    /\ returned = <<>>
    /\ file \in FilesUpTo(MaxFile)
    /\ fpos = 0
    /\ ReaderIdle
    /\ ParserIdle
    /\ SceneIdle

LoadBlockRecord ==
    /\ fpos < Len(file)
    /\ file[fpos + 1].rec = "BLOCK"
    /\ doc' = load_record(doc, file[fpos + 1])
    /\ fpos' = fpos + 1
    /\ UNCHANGED <<returned, file, readerVars, parseVars, scene>>

LoadMLeaderRecord ==
    /\ fpos < Len(file)
    /\ file[fpos + 1].rec = "MULTILEADER"
    /\ doc' = load_record(doc, file[fpos + 1])
    /\ returned' = Append(returned, doc.next_entity_id)
    /\ fpos' = fpos + 1
    /\ UNCHANGED <<file, readerVars, parseVars, scene>>

NextFile ==
    \/ LoadBlockRecord
    \/ LoadMLeaderRecord

SpecFile == InitFile /\ [][NextFile]_vars

IsBlockRecord(r) == r.rec = "BLOCK"

IsMLeaderRecord(r) == r.rec = "MULTILEADER"

\* The files that hold the records of f with the BLOCK records in the same order among
\* themselves and the MULTILEADER records in the same order among themselves: every way
\* of moving block definitions before or after the multileaders.
Rearrangements(f) ==
    {g \in [1..Len(f) -> {f[i] : i \in 1..Len(f)}] :
        /\ SelectSeq(g, IsBlockRecord) = SelectSeq(f, IsBlockRecord)
        /\ SelectSeq(g, IsMLeaderRecord) = SelectSeq(f, IsMLeaderRecord)}

\* The block name each stored MLeader holds, in entity order.
BlockNamesHeld(d) ==
    [i \in 1..Len(d.entities) |-> d.entities[i].entity.content.block.block_name]

\* C5: after a full load the block name each MULTILEADER holds is the one it holds for
\* every other placement of the BLOCK records relative to the MULTILEADER records.
C5_NameIndependentOfOrder ==
    fpos = Len(file) =>
        \A g \in Rearrangements(file) :
            BlockNamesHeld(load_all(Document_new, g)) = BlockNamesHeld(doc)

-----------------------------------------------------------------------------
(* zcad-io: DxfParser. The parser is a machine record m holding the call   *)
(* stack, the reader, the Document and the outcome. A frame is             *)
(* [fn, at, locals]: the function, the place inside it (the loop it is in, *)
(* or the call it waits for) and its local variables. The text not yet     *)
(* read is no part of the state: every read draws the next two lines, and  *)
(* `exhausted` records that the text has ended.                            *)

\* str::parse::<f64> on the trimmed values of the alphabet.
ParseF64 == ("1" :> 1) @@ ("2" :> 2)

\* parse_i16 on the trimmed values of the alphabet.
ParseI16 ==
    ("0" :> 0) @@ ("1" :> 1) @@ ("2" :> 2) @@ ("3" :> 3) @@ ("16" :> 16) @@ ("17" :> 17)
        @@ ("19" :> 19) @@ ("64" :> 64) @@ ("80" :> 80) @@ ("128" :> 128) @@ ("192" :> 192)
        @@ ("-1" :> -1) @@ ("-2" :> -2)

\* An angle field holds an f64 of radians. The model keeps the angle a + b * pi / 180 as
\* the record of a and b, so that a number of degrees and its radians are both exact.
\* f64_as_radians is an f64 stored in an angle field as it is.
f64_as_radians(x) ==
    [rad |-> x, pi_over_180 |-> 0]

\* f64::to_radians: x * pi / 180.
to_radians(x) ==
    [rad |-> 0, pi_over_180 |-> x]

\* A test of the block name that no name passes.
StartsWithStar_never(value) ==
    FALSE

\* str::starts_with('*') on the values of the alphabet.
StartsWithStar(value) ==
    value = "*U"

\* The entity tags parse_entity dispatches to a sub-parser.
RecognizedKinds ==
    {"LINE", "CIRCLE", "ARC", "ELLIPSE", "LWPOLYLINE", "TEXT", "MTEXT", "INSERT", "HATCH",
     "DIMENSION", "SPLINE", "LEADER", "MULTILEADER", "IMAGE", "WIPEOUT", "3DFACE"}

\* DxfError::invalid.
Invalid(message) ==
    [kind |-> "Invalid", message |-> message]

\* DxfError::unsupported.
Unsupported(feature) ==
    [kind |-> "Unsupported", message |-> feature]

\* The DxfError behind an Err of the reader.
ReaderError(r) ==
    [kind |-> r.kind, message |-> r.what, line |-> r.line]

Frame(fn, at, locals) ==
    [fn |-> fn, at |-> at, locals |-> locals]

Top(m) == m.stack[Len(m.stack)]

Pop(m) == [m EXCEPT !.stack = SubSeq(@, 1, Len(@) - 1)]

\* Enter a function: the caller waits at `site`, the callee starts in its loop.
Call(m, site, fn, locals) ==
    [m EXCEPT !.stack = Append([@ EXCEPT ![Len(@)].at = site], Frame(fn, "loop", locals))]

\* Go on with the loop of the running function.
Continue(m) ==
    [m EXCEPT !.stack[Len(m.stack)].at = "loop"]

\* Go on with the loop of the running function with new local variables.
ContinueWith(m, locals) ==
    [m EXCEPT !.stack[Len(m.stack)] = Frame(@.fn, "loop", locals)]

\* The match in parse_block_definition that handles every Err of parse_entity by skipping.
catches_every_error(frame, err) ==
    frame.fn = "parse_block_definition" /\ frame.at = "call_parse_entity"

\* The only place that inspects an Err instead of passing it on with `?`: the match on
\* parse_entity's result in parse_block_definition, which handles DxfError::Unsupported.
catches(frame, err) ==
    /\ frame.fn = "parse_block_definition"
    /\ frame.at = "call_parse_entity"
    /\ err.kind = "Unsupported"

\* A BLOCK definition is being parsed.
InBlockDefinition(m) ==
    \E i \in 1..Len(m.stack) : m.stack[i].fn = "parse_block_definition"

RECURSIVE Unwind(_, _)
\* The running function returns Err(err): each caller passes it on, except the one that
\* catches it, which skips the rest of the record; with no caller left parse returns Err.
Unwind(m, err) ==
    LET m1 == Pop(m)
    IN  IF m1.stack = <<>>
        THEN [m1 EXCEPT !.result = "err", !.error = <<err>>]
        ELSE IF catches(Top(m1), err)
        THEN Call(m1, "call_skip_unsupported", "skip_entity_body", <<>>)
        ELSE Unwind(m1, err)

\* An error is raised in the running function.
Raise(m, err) ==
    Unwind([m EXCEPT !.raised = @ \cup {[kind |-> err.kind, in_block |-> InBlockDefinition(m)]}],
           err)

\* The local variables parse_block_definition starts with.
BlockLocals ==
    [name |-> None, base_x |-> 0, base_y |-> 0, collect_entities |-> TRUE, entities |-> <<>>,
     attribute_defs |-> <<>>, block_handle |-> None, record_handle |-> None]

\* The local variables parse_line starts with (an Option<f64> is <<>> or <<x>>).
LineLocals ==
    [layer |-> None, start_x |-> <<>>, start_y |-> <<>>, end_x |-> <<>>, end_y |-> <<>>]

\* The local variables parse_insert starts with; attributes is the list its second loop fills.
InsertLocals ==
    [layer |-> None, name |-> None, insert_x |-> <<>>, insert_y |-> <<>>, scale_x |-> <<>>,
     scale_y |-> <<>>, rotation_deg |-> 0, attributes |-> <<>>]

\* The Entity::BlockReference parse_insert returns: the layer defaults to "0", the X scale
\* to 1 and the Y scale to the X scale.
InsertEntity(l) ==
    LET sx == IF l.scale_x = <<>> THEN 1 ELSE l.scale_x[1]
        sy == IF l.scale_y = <<>> THEN sx ELSE l.scale_y[1]
    IN  [kind |-> "BlockReference", layer |-> IF l.layer = None THEN "0" ELSE l.layer,
         name |-> l.name, attributes |-> l.attributes, insert |-> <<l.insert_x[1], l.insert_y[1]>>,
         scale |-> <<sx, sy>>, rotation |-> to_radians(l.rotation_deg)]

\* `flags & bit != 0` for a flag word that is not negative.
Bit(flags, bit) == (flags \div bit) % 2 = 1

\* The local variables parse_polyline_entity starts with.
PolylineLocals ==
    [layer |-> None, flags |-> <<>>, mesh_rows |-> <<>>, mesh_cols |-> <<>>]

\* The local variables of parse_polyface_vertex_record and parse_mesh_vertex_record.
VertexLocals ==
    [x |-> <<>>, y |-> <<>>, z |-> <<>>, flags |-> 0, indices |-> <<0, 0, 0, 0>>]

\* DxfParser::resolve_polyface_vertex: <<>> is the Err of an index outside the coordinates.
resolve_polyface_vertex(coordinates, index) ==
    LET idx == IF index < 0 THEN -index ELSE index
    IN  IF idx = 0 \/ idx > Len(coordinates) THEN <<>> ELSE <<coordinates[idx]>>

RECURSIVE build_polyface_slots(_, _, _, _)
\* The loop of build_polyface_face from slot `slot` on; acc holds the vertices, the
\* invisible flags and the last vertex.
build_polyface_slots(coordinates, indices, slot, acc) ==
    IF slot > 4 THEN [tag |-> "Some", vertices |-> acc.vertices, invisible |-> acc.invisible]
    ELSE IF indices[slot] = 0
    THEN build_polyface_slots(coordinates, indices, slot + 1,
            [acc EXCEPT !.vertices[slot] = acc.last_vertex, !.invisible[slot] = TRUE])
    ELSE LET resolved == resolve_polyface_vertex(coordinates, indices[slot])
         IN  IF resolved = <<>> THEN [tag |-> "Err"]
             ELSE build_polyface_slots(coordinates, indices, slot + 1,
                    [vertices |-> [acc.vertices EXCEPT ![slot] = resolved[1]],
                     invisible |-> [acc.invisible EXCEPT ![slot] = indices[slot] < 0],
                     last_vertex |-> resolved[1]])

\* DxfParser::build_polyface_face.
build_polyface_face(coordinates, indices) ==
    IF coordinates = <<>> THEN [tag |-> "None"]
    ELSE build_polyface_slots(coordinates, indices, 1,
            [vertices |-> [i \in 1..4 |-> coordinates[1]],
             invisible |-> [i \in 1..4 |-> FALSE],
             last_vertex |-> coordinates[1]])

\* The four grid vertices of the face at (row, col), both counted from 0, as
\* parse_polygon_mesh picks them: idx, idx_down, idx_diag, idx_right.
mesh_face_vertices(vertices, rows, cols, row, col) ==
    LET next_row == (row + 1) % rows
        next_col == (col + 1) % cols
    IN  <<vertices[row * cols + col + 1],
          vertices[next_row * cols + col + 1],
          vertices[next_row * cols + next_col + 1],
          vertices[row * cols + next_col + 1]>>

RECURSIVE mesh_faces_from(_, _, _, _, _, _, _, _)
\* The two nested loops of parse_polygon_mesh from the k-th iteration on, rows first.
mesh_faces_from(d, layer, rows, cols, row_iterations, col_iterations, vertices, k) ==
    IF k >= row_iterations * col_iterations THEN d
    ELSE mesh_faces_from(
            add_face3d(d, mesh_face_vertices(vertices, rows, cols,
                                             k \div col_iterations, k % col_iterations),
                       layer).doc,
            layer, rows, cols, row_iterations, col_iterations, vertices, k + 1)

\* mesh_faces with the neighbour of the last row and column clamped instead of wrapped.
mesh_faces_no_wrap(d, layer, rows, cols, wrap_m, wrap_n, vertices) ==
    mesh_faces_from(d, layer, rows, cols, rows - 1, cols - 1, vertices, 0)

\* DxfParser::parse_polygon_mesh, the faces: the document after every add_face3d.
mesh_faces(d, layer, rows, cols, wrap_m, wrap_n, vertices) ==
    mesh_faces_from(d, layer, rows, cols,
                    IF wrap_m THEN rows ELSE rows - 1,
                    IF wrap_n THEN cols ELSE cols - 1,
                    vertices, 0)

\* The local variables parse_objects starts with (the raster variables are left out).
ObjectsLocals ==
    [dictionaries |-> <<>>, root_entries |-> <<>>, raster_variables_by_handle |-> <<>>,
     reactor_by_owner |-> <<>>]

\* The local variables parse_dictionary starts with.
DictionaryLocals ==
    [handle |-> None, owner |-> None, entries |-> <<>>, pending_entry_name |-> None,
     in_reactors |-> FALSE]

\* The local variables parse_image_def_reactor starts with.
ReactorLocals ==
    [handle |-> None, owner_handle |-> None, image_handle |-> None, class_version |-> 0,
     in_reactors |-> FALSE, in_reactor_subclass |-> FALSE]

\* str::cmp on the entry names of the alphabets: the rank of a name in byte order.
NameRank == ("A" :> 1) @@ ("ACAD_IMAGE_DICT" :> 2)

RECURSIVE or_insert_entries(_, _)
\* The loop over the entries of a root dictionary in parse_objects:
\* root_entries.entry(name).or_insert_with(handle), the first handle of a name stays.
or_insert_entries(root_entries, entries) ==
    IF entries = <<>> THEN root_entries
    ELSE or_insert_entries(
            IF Head(entries).name \in DOMAIN root_entries THEN root_entries
            ELSE (Head(entries).name :> Head(entries).handle) @@ root_entries,
            Tail(entries))

RECURSIVE stable_sort_by_name(_)
\* A stable sort in ascending name order: the first entry goes before the sorted rest's
\* entries of an equal or greater name.
stable_sort_by_name(entries) ==
    IF entries = <<>> THEN <<>>
    ELSE LET e == Head(entries)
             rest == stable_sort_by_name(Tail(entries))
         IN  SelectSeq(rest, LAMBDA o : NameRank[o.name] < NameRank[e.name])
                \o <<e>>
                \o SelectSeq(rest, LAMBDA o : NameRank[o.name] >= NameRank[e.name])

\* sort_by that leaves the entries in the order of the input.
sort_by_name_input_order(entries) ==
    entries

\* image_dict.entries.sort_by(|a, b| a.name.cmp(&b.name)).
sort_by_name(entries) ==
    stable_sort_by_name(entries)

\* The ImageDictionary parse_objects builds from the dictionary dict.
ImageDictionaryOf(dict, reactor_by_owner) ==
    [handle |-> dict.handle,
     entries |-> sort_by_name(
        [i \in 1..Len(dict.entries) |->
            [name |-> dict.entries[i].name,
             image_def_handle |-> dict.entries[i].handle,
             reactor_handle |-> IF dict.entries[i].handle \in DOMAIN reactor_by_owner
                                THEN reactor_by_owner[dict.entries[i].handle]
                                ELSE None]])]

\* DxfParser::parse_objects, what follows the loop: the image dictionary.
attach_image_dictionary(d, l) ==
    IF /\ "ACAD_IMAGE_DICT" \in DOMAIN l.root_entries
       /\ l.root_entries["ACAD_IMAGE_DICT"] \in DOMAIN l.dictionaries
    THEN set_image_dictionary(d, ImageDictionaryOf(
            l.dictionaries[l.root_entries["ACAD_IMAGE_DICT"]], l.reactor_by_owner))
    ELSE d

\* DxfParser::parse_objects, what follows the loop: the raster variables.
attach_raster_variables(d, l) ==
    IF /\ "ACAD_IMAGE_VARS" \in DOMAIN l.root_entries
       /\ l.root_entries["ACAD_IMAGE_VARS"] \in DOMAIN l.raster_variables_by_handle
    THEN set_raster_image_variables(
            d, l.raster_variables_by_handle[l.root_entries["ACAD_IMAGE_VARS"]])
    ELSE d

RECURSIVE Return(_, _)
\* The running function returns Ok(value): the caller goes on after the call.
Return(m, value) ==
    LET m1 == Pop(m)
        f == Top(m1)
    IN  CASE f.fn = "parse" -> Continue(m1)
          [] f.fn = "parse_entities" /\ f.at = "call_skip_seqend" -> Continue(m1)
          [] f.fn = "parse_entities" /\ f.at = "call_parse_entity" ->
                Continue([m1 EXCEPT !.doc = add_entity(@, value).doc])
          [] f.fn = "parse_blocks" /\ f.at = "call_skip" -> Continue(m1)
          [] f.fn = "parse_blocks" /\ f.at = "call_block_definition" ->
                IF value = <<>>
                THEN Continue(m1)
                ELSE Continue([m1 EXCEPT !.doc = add_block_definition_with_handle(
                                    @, value[1].definition, value[1].block_handle,
                                    value[1].record_handle)])
          [] f.fn = "parse_objects" /\ f.at = "call_skip" -> Continue(m1)
          [] f.fn = "parse_objects" /\ f.at = "call_dictionary" ->
                ContinueWith(m1, [f.locals EXCEPT
                    !.root_entries = IF value.owner = "0"
                                     THEN or_insert_entries(@, value.entries)
                                     ELSE @,
                    !.dictionaries = (value.handle :> value) @@ @])
          [] f.fn = "parse_objects" /\ f.at = "call_image_def" ->
                Continue([m1 EXCEPT !.doc = add_raster_image_definition(@, value)])
          [] f.fn = "parse_objects" /\ f.at = "call_raster_variables" ->
                ContinueWith(m1, [f.locals EXCEPT
                    !.raster_variables_by_handle = (value[1] :> value[2]) @@ @])
          [] f.fn = "parse_objects" /\ f.at = "call_image_def_reactor" ->
                ContinueWith([m1 EXCEPT !.doc = add_image_def_reactor(@, value)],
                             [f.locals EXCEPT
                                !.reactor_by_owner =
                                    IF value.owner_handle # None
                                    THEN (value.owner_handle :> value.handle) @@ @
                                    ELSE @])
          [] f.fn = "parse_entities" /\ f.at = "call_polyline" -> Continue(m1)
          [] f.fn = "parse_polyline_entity"
                /\ f.at \in {"call_polyface_mesh", "call_polygon_mesh"} -> Return(m1, <<>>)
          [] f.fn = "parse_polyline_entity" /\ f.at = "call_skip_sequence" ->
                Raise(m1, Unsupported("POLYLINE mode other than mesh and polyface"))
          [] f.fn = "skip_polyline_sequence" /\ f.at = "call_skip_vertex" -> Continue(m1)
          [] f.fn = "parse_polyface_mesh" /\ f.at = "call_vertex_record" ->
                (CASE value.tag = "Coordinate" ->
                        ContinueWith(m1, [f.locals EXCEPT !.coordinates = Append(@, value.point)])
                   [] value.tag = "Ignored" -> Continue(m1)
                   [] value.tag = "Face" ->
                        (LET face == build_polyface_face(f.locals.coordinates, value.indices)
                         IN  CASE face.tag = "Err" ->
                                    Raise(m1, Invalid("POLYFACE face refers to a missing vertex"))
                               [] face.tag = "None" -> Continue(m1)
                               [] face.tag = "Some" ->
                                    Continue([m1 EXCEPT !.doc =
                                        add_face3d(@, face.vertices, f.locals.layer).doc])))
          [] f.fn = "parse_polygon_mesh" /\ f.at = "call_vertex_record" ->
                IF value = <<>> THEN Continue(m1)
                ELSE ContinueWith(m1, [f.locals EXCEPT !.vertices = Append(@, value[1])])
          [] f.fn = "parse_insert" /\ f.at = "call_skip_seqend" ->
                Return(m1, InsertEntity(f.locals))
          [] f.fn = "parse_block_definition" /\ f.at = "call_parse_entity" ->
                ContinueWith(m1, [f.locals EXCEPT !.entities = Append(@, value)])
          [] f.fn = "parse_block_definition"
                /\ f.at \in {"call_skip_unsupported", "call_skip_uncollected"} -> Continue(m1)
          [] f.fn = "parse_block_definition" /\ f.at = "call_skip_endblk" ->
                \* the loop breaks; what follows it in parse_block_definition
                LET l == f.locals
                IN  IF l.name = None
                    THEN Raise(m1, Invalid("BLOCK lacks a name (group 2)"))
                    ELSE IF ~l.collect_entities
                    THEN Return(m1, <<>>)
                    ELSE Return(m1, <<[definition |->
                                        [name |-> l.name, base_point |-> <<l.base_x, l.base_y>>,
                                         entities |-> l.entities, attributes |-> l.attribute_defs],
                                       block_handle |-> l.block_handle,
                                       record_handle |-> l.record_handle]>>)

\* A usize of the 64-bit build is kept as the record of `high` and `low` that stands for
\* high * 2^64 + low: a small size has high = 0, a size within reach of 2^64 has high = 1
\* and a negative low. `x as usize` on an i16 extends the sign, so -1 becomes 2^64 - 1.
as_usize(x) ==
    IF x < 0 THEN [high |-> 1, low |-> x] ELSE [high |-> 0, low |-> x]

\* a < b on usize.
usize_lt(a, b) ==
    a.high < b.high \/ (a.high = b.high /\ a.low < b.low)

\* Whether a * b on usize leaves the 64 bits: one factor is within reach of 2^64 and the
\* other is 2 or more.
usize_mul_overflows(a, b) ==
    \/ a.high = 1 /\ (b.high = 1 \/ b.low >= 2)
    \/ b.high = 1 /\ (a.high = 1 \/ a.low >= 2)

\* a * b modulo 2^64: (ha * 2^64 + la) * (hb * 2^64 + lb) is la * lb modulo 2^64.
usize_wrapping_mul(a, b) ==
    as_usize(a.low * b.low)

\* self.reader.put_back(pair) followed by break, after which the function returns Ok(value).
PutBackAndReturn(m, pair, value) ==
    LET p == put_back(m.reader, pair)
    IN  IF p.panicked
        THEN [m EXCEPT !.status = "panicked"]
        ELSE Return([m EXCEPT !.reader = p.reader], value)

\* DxfParser::parse_polyline_entity with the mesh bit tested before the polyface bit.
parse_polyline_mode_mesh_first(m, l) ==
    LET flags == IF l.flags = <<>> THEN 0 ELSE l.flags[1]
        layer == IF l.layer = None THEN "0" ELSE l.layer
    IN  IF Bit(flags, 16)
        THEN IF l.mesh_rows = <<>> THEN Raise(m, Invalid("POLYLINE mesh lacks its rows (71)"))
             ELSE IF l.mesh_cols = <<>> THEN Raise(m, Invalid("POLYLINE mesh lacks its columns (72)"))
             ELSE IF \/ usize_lt(as_usize(l.mesh_rows[1]), as_usize(2))
                     \/ usize_lt(as_usize(l.mesh_cols[1]), as_usize(2))
             THEN Raise(m, Invalid("POLYLINE mesh needs 2x2 vertices"))
             ELSE Call(m, "call_polygon_mesh", "parse_polygon_mesh",
                       [layer |-> layer, rows |-> as_usize(l.mesh_rows[1]),
                        cols |-> as_usize(l.mesh_cols[1]),
                        wrap_m |-> Bit(flags, 1), wrap_n |-> Bit(flags, 2), vertices |-> <<>>])
        ELSE IF Bit(flags, 64)
        THEN Call(m, "call_polyface_mesh", "parse_polyface_mesh",
                  [layer |-> layer, coordinates |-> <<>>])
        ELSE Call(m, "call_skip_sequence", "skip_polyline_sequence", <<>>)

\* DxfParser::parse_polyline_entity, what follows the loop: the dispatch on the flags
\* (and the first check of parse_polygon_mesh).
parse_polyline_mode(m, l) ==
    LET flags == IF l.flags = <<>> THEN 0 ELSE l.flags[1]
        layer == IF l.layer = None THEN "0" ELSE l.layer
    IN  IF Bit(flags, 64)
        THEN Call(m, "call_polyface_mesh", "parse_polyface_mesh",
                  [layer |-> layer, coordinates |-> <<>>])
        ELSE IF Bit(flags, 16)
        THEN IF l.mesh_rows = <<>> THEN Raise(m, Invalid("POLYLINE mesh lacks its rows (71)"))
             ELSE IF l.mesh_cols = <<>> THEN Raise(m, Invalid("POLYLINE mesh lacks its columns (72)"))
             ELSE IF \/ usize_lt(as_usize(l.mesh_rows[1]), as_usize(2))
                     \/ usize_lt(as_usize(l.mesh_cols[1]), as_usize(2))
             THEN Raise(m, Invalid("POLYLINE mesh needs 2x2 vertices"))
             ELSE Call(m, "call_polygon_mesh", "parse_polygon_mesh",
                       [layer |-> layer, rows |-> as_usize(l.mesh_rows[1]),
                        cols |-> as_usize(l.mesh_cols[1]),
                        wrap_m |-> Bit(flags, 1), wrap_n |-> Bit(flags, 2), vertices |-> <<>>])
        ELSE Call(m, "call_skip_sequence", "skip_polyline_sequence", <<>>)

\* DxfParser::parse_polyline_entity, the loop.
parse_polyline_entity(m, r) ==
    LET l == Top(m).locals
        c == r.pair.code
        v == r.pair.value
        flag(field) ==
            IF Trim(v) \notin DOMAIN ParseI16
            THEN Raise(m, [kind |-> "Invalid", message |-> "POLYLINE number does not parse",
                           field |-> field])
            ELSE ContinueWith(m, [l EXCEPT ![field] = <<ParseI16[Trim(v)]>>])
    IN  CASE r.tag = "Err" -> Raise(m, ReaderError(r))
          [] r.tag = "None" -> Raise(m, Invalid("POLYLINE not properly ended"))
          [] r.tag = "Some" /\ c = 0 ->
                (LET p == put_back(m.reader, r.pair)
                 IN  IF p.panicked THEN [m EXCEPT !.status = "panicked"]
                     ELSE parse_polyline_mode([m EXCEPT !.reader = p.reader], l))
          [] r.tag = "Some" /\ c = 8 -> ContinueWith(m, [l EXCEPT !.layer = Trim(v)])
          [] r.tag = "Some" /\ c = 70 -> flag("flags")
          [] r.tag = "Some" /\ c = 71 -> flag("mesh_rows")
          [] r.tag = "Some" /\ c = 72 -> flag("mesh_cols")
          [] r.tag = "Some" /\ c \notin {0, 8, 70, 71, 72} -> Continue(m)

\* DxfParser::skip_polyline_sequence.
skip_polyline_sequence(m, r) ==
    CASE r.tag = "Err" -> Raise(m, ReaderError(r))
      [] r.tag = "None" -> Return(m, <<>>)
      [] r.tag = "Some" /\ r.pair.code # 0 -> Continue(m)
      [] r.tag = "Some" /\ r.pair.code = 0 ->
            CASE r.pair.value = "VERTEX" -> Call(m, "call_skip_vertex", "skip_entity_body", <<>>)
              [] r.pair.value = "SEQEND" -> Return(m, <<>>)
              [] OTHER -> PutBackAndReturn(m, r.pair, <<>>)

\* DxfParser::parse_polyface_mesh.
parse_polyface_mesh(m, r) ==
    CASE r.tag = "Err" -> Raise(m, ReaderError(r))
      [] r.tag = "None" -> Raise(m, Invalid("POLYLINE lacks SEQEND"))
      [] r.tag = "Some" /\ r.pair.code # 0 ->
            Raise(m, Invalid("POLYLINE met a record that is no VERTEX or SEQEND"))
      [] r.tag = "Some" /\ r.pair.code = 0 ->
            CASE r.pair.value = "VERTEX" ->
                    Call(m, "call_vertex_record", "parse_polyface_vertex_record", VertexLocals)
              [] r.pair.value = "SEQEND" -> Return(m, <<>>)
              [] OTHER -> PutBackAndReturn(m, r.pair, <<>>)

\* One numeric field of a VERTEX record: parse_f64 for the coordinates, parse_i16 for the
\* flags, parse_i32 for the face indices.
vertex_field(m, r) ==
    LET l == Top(m).locals
        c == r.pair.code
        t == Trim(r.pair.value)
        bad == Raise(m, [kind |-> "Invalid", message |-> "VERTEX number does not parse",
                         code |-> c])
    IN  CASE c = 10 -> IF t \notin DOMAIN ParseF64 THEN bad
                       ELSE ContinueWith(m, [l EXCEPT !.x = <<ParseF64[t]>>])
          [] c = 20 -> IF t \notin DOMAIN ParseF64 THEN bad
                       ELSE ContinueWith(m, [l EXCEPT !.y = <<ParseF64[t]>>])
          [] c = 30 -> IF t \notin DOMAIN ParseF64 THEN bad
                       ELSE ContinueWith(m, [l EXCEPT !.z = <<ParseF64[t]>>])
          [] c = 70 -> IF t \notin DOMAIN ParseI16 THEN bad
                       ELSE ContinueWith(m, [l EXCEPT !.flags = ParseI16[t]])

\* The Point3 of a VERTEX record: Z defaults to 0.
VertexPoint(l) == <<l.x[1], l.y[1], IF l.z = <<>> THEN 0 ELSE l.z[1]>>

\* DxfParser::parse_polyface_vertex_record.
parse_polyface_vertex_record(m, r) ==
    LET l == Top(m).locals
        c == r.pair.code
        t == Trim(r.pair.value)
    IN  CASE r.tag = "Err" -> Raise(m, ReaderError(r))
          [] r.tag = "None" -> Raise(m, Invalid("VERTEX not properly ended"))
          [] r.tag = "Some" /\ c = 0 ->
                (LET p == put_back(m.reader, r.pair)
                     m1 == [m EXCEPT !.reader = p.reader]
                 IN  IF p.panicked THEN [m EXCEPT !.status = "panicked"]
                     ELSE IF Bit(l.flags, 128) /\ Bit(l.flags, 64)
                     THEN IF l.x = <<>> THEN Raise(m1, Invalid("POLYFACE vertex lacks X (10)"))
                          ELSE IF l.y = <<>> THEN Raise(m1, Invalid("POLYFACE vertex lacks Y (20)"))
                          ELSE Return(m1, [tag |-> "Coordinate", point |-> VertexPoint(l)])
                     ELSE IF Bit(l.flags, 128)
                     THEN Return(m1, [tag |-> "Face", indices |-> l.indices])
                     ELSE Return(m1, [tag |-> "Ignored"]))
          [] r.tag = "Some" /\ c \in {10, 20, 30, 70} -> vertex_field(m, r)
          [] r.tag = "Some" /\ c \in {71, 72, 73, 74} ->
                IF t \notin DOMAIN ParseI32
                THEN Raise(m, [kind |-> "Invalid", message |-> "POLYFACE index does not parse",
                               code |-> c])
                ELSE ContinueWith(m, [l EXCEPT !.indices[c - 70] = ParseI32[t]])
          [] r.tag = "Some" /\ c \notin {0, 10, 20, 30, 70, 71, 72, 73, 74} -> Continue(m)

\* DxfParser::parse_polygon_mesh, what follows the loop. rows * cols panics on overflow in
\* a build with overflow checks and wraps in a build without them. With a count within
\* reach of 2^64 that got past the test of the vertices, the first face of the loops reads
\* vertices[idx_down] at next_row * cols = cols, beyond the vertices: a panic.
parse_polygon_mesh_end(m, l, overflow_checks) ==
    IF overflow_checks /\ usize_mul_overflows(l.rows, l.cols)
    THEN [m EXCEPT !.status = "panicked"]
    ELSE LET expected == usize_wrapping_mul(l.rows, l.cols)
         IN  IF usize_lt(as_usize(Len(l.vertices)), expected)
             THEN Raise(m, Invalid("POLYLINE mesh has too few vertices"))
             ELSE IF l.rows.high = 1 \/ l.cols.high = 1
             THEN [m EXCEPT !.status = "panicked"]
             ELSE Return([m EXCEPT !.doc = mesh_faces(@, l.layer, l.rows.low, l.cols.low,
                                                       l.wrap_m, l.wrap_n, l.vertices)],
                         <<>>)

\* DxfParser::parse_polygon_mesh, the loop.
parse_polygon_mesh(m, r, overflow_checks) ==
    CASE r.tag = "Err" -> Raise(m, ReaderError(r))
      [] r.tag = "None" -> Raise(m, Invalid("POLYLINE mesh lacks SEQEND"))
      [] r.tag = "Some" /\ r.pair.code # 0 -> Raise(m, Invalid("POLYLINE mesh met a bad record"))
      [] r.tag = "Some" /\ r.pair.code = 0 ->
            CASE r.pair.value = "VERTEX" ->
                    Call(m, "call_vertex_record", "parse_mesh_vertex_record", VertexLocals)
              [] r.pair.value = "SEQEND" ->
                    parse_polygon_mesh_end(m, Top(m).locals, overflow_checks)
              [] OTHER ->
                    (LET p == put_back(m.reader, r.pair)
                     IN  IF p.panicked THEN [m EXCEPT !.status = "panicked"]
                         ELSE parse_polygon_mesh_end([m EXCEPT !.reader = p.reader],
                                                     Top(m).locals, overflow_checks))

\* DxfParser::parse_mesh_vertex_record: Ok(None) is <<>>, Ok(Some(point)) is <<point>>.
parse_mesh_vertex_record(m, r) ==
    LET l == Top(m).locals
        c == r.pair.code
    IN  CASE r.tag = "Err" -> Raise(m, ReaderError(r))
          [] r.tag = "None" -> Raise(m, Invalid("VERTEX not properly ended"))
          [] r.tag = "Some" /\ c = 0 ->
                (LET p == put_back(m.reader, r.pair)
                     m1 == [m EXCEPT !.reader = p.reader]
                 IN  IF p.panicked THEN [m EXCEPT !.status = "panicked"]
                     ELSE IF Bit(l.flags, 128) THEN Return(m1, <<>>)
                     ELSE IF l.x = <<>> THEN Raise(m1, Invalid("mesh vertex lacks X (10)"))
                     ELSE IF l.y = <<>> THEN Raise(m1, Invalid("mesh vertex lacks Y (20)"))
                     ELSE Return(m1, <<VertexPoint(l)>>))
          [] r.tag = "Some" /\ c \in {10, 20, 30, 70} -> vertex_field(m, r)
          [] r.tag = "Some" /\ c \notin {0, 10, 20, 30, 70} -> Continue(m)

\* The local variables parse_mleader starts with (style, heights, gap and dogleg left out).
MLeaderLocals ==
    [layer |-> None, leader_lines |-> <<>>, current_line |-> <<>>, pending_vertex_x |-> <<>>,
     content_location_pending_x |-> <<>>, content_location |-> <<>>, text_lines |-> <<>>,
     content_type |-> <<>>, block_handle |-> None, block_scale |-> <<1, 1, 1>>,
     block_scale_next_code |-> <<>>, block_rotation |-> <<>>, block_connection_type |-> <<>>,
     block_location_x |-> <<>>, block_location_y |-> <<>>, in_leader_section |-> FALSE,
     scale |-> <<>>, dogleg_length |-> <<>>]

\* The MLeaderContent parse_mleader builds from what its loop collected.
MLeaderContentOf(l, leader_lines) ==
    LET first == leader_lines[1]
        fallback_location ==
            IF l.content_location # <<>> THEN l.content_location[1]
            ELSE IF leader_lines # <<>> /\ first # <<>> THEN first[Len(first)]
            ELSE <<0, 0>>
        has_block_content ==
            \/ l.content_type = <<1>>
            \/ l.block_handle # None
            \/ l.block_location_x # <<>>
            \/ l.block_location_y # <<>>
    IN  IF has_block_content
        THEN [type |-> "Block",
              block |-> [block_handle |-> l.block_handle,
                         block_name |-> None,
                         location |-> IF l.block_location_x # <<>> /\ l.block_location_y # <<>>
                                      THEN <<l.block_location_x[1], l.block_location_y[1]>>
                                      ELSE fallback_location,
                         scale |-> <<l.block_scale[1], l.block_scale[2]>>,
                         rotation |-> f64_as_radians(IF l.block_rotation = <<>> THEN 0
                                                     ELSE l.block_rotation[1]),
                         connection_type |-> l.block_connection_type]]
        ELSE IF l.text_lines # <<>>
        THEN [type |-> "MText", text |-> l.text_lines,
              location |-> IF l.content_location # <<>> THEN l.content_location[1]
                           ELSE fallback_location]
        ELSE [type |-> "None"]

\* DxfParser::parse_mleader, what follows the loop.
parse_mleader_end(m, l) ==
    LET leader_lines == IF l.current_line # <<>>
                        THEN Append(l.leader_lines, l.current_line)
                        ELSE l.leader_lines
    IN  IF l.pending_vertex_x # <<>>
        THEN Raise(m, Invalid("MULTILEADER ends after a vertex X without its Y"))
        ELSE IF l.content_location_pending_x # <<>>
        THEN Raise(m, Invalid("MULTILEADER content location lacks its Y"))
        ELSE IF leader_lines = <<>>
        THEN Raise(m, Invalid("MULTILEADER has no leader geometry"))
        ELSE Return(m, [kind |-> "MLeader",
                        layer |-> IF l.layer = None THEN "0" ELSE l.layer,
                        leader_lines |-> leader_lines,
                        content |-> MLeaderContentOf(l, leader_lines),
                        scale |-> l.scale,
                        has_dogleg |-> l.dogleg_length # <<>> /\ l.dogleg_length[1] # 0,
                        dogleg_length |-> l.dogleg_length])

\* DxfParser::parse_mleader, the loop (the arms of codes 3, 140 and 145 are left out: they
\* fill the style, the text height and the landing gap).
parse_mleader(m, r) ==
    LET l == Top(m).locals
        c == r.pair.code
        v == r.pair.value
        parses == Trim(v) \in DOMAIN ParseF64
        x == ParseF64[Trim(v)]
        bad(what) == Raise(m, [kind |-> "Invalid", message |-> what, code |-> c])
    IN  CASE r.tag = "Err" -> Raise(m, ReaderError(r))
          [] r.tag = "None" -> Raise(m, Invalid("MULTILEADER not properly ended"))
          [] r.tag = "Some" /\ c = 0 ->
                (LET p == put_back(m.reader, r.pair)
                 IN  IF p.panicked THEN [m EXCEPT !.status = "panicked"]
                     ELSE parse_mleader_end([m EXCEPT !.reader = p.reader], l))
          [] r.tag = "Some" /\ c = 8 -> ContinueWith(m, [l EXCEPT !.layer = Trim(v)])
          [] r.tag = "Some" /\ c = 10 ->
                IF l.block_scale_next_code = <<10>>
                THEN IF ~parses THEN bad("block scale X does not parse")
                     ELSE ContinueWith(m, [l EXCEPT !.block_scale[1] = x,
                                                    !.block_scale_next_code = <<20>>])
                ELSE IF l.pending_vertex_x # <<>> THEN bad("vertex X repeated without a Y")
                ELSE IF ~parses THEN bad("vertex X does not parse")
                ELSE ContinueWith(m, [l EXCEPT !.pending_vertex_x = <<x>>])
          [] r.tag = "Some" /\ c = 20 ->
                IF l.block_scale_next_code = <<20>>
                THEN IF ~parses THEN bad("block scale Y does not parse")
                     ELSE ContinueWith(m, [l EXCEPT !.block_scale[2] = x,
                                                    !.block_scale_next_code = <<30>>])
                ELSE IF l.pending_vertex_x = <<>> THEN bad("vertex Y before its X")
                ELSE IF ~parses THEN bad("vertex Y does not parse")
                ELSE ContinueWith(m, [l EXCEPT
                        !.current_line = Append(@, <<l.pending_vertex_x[1], x>>),
                        !.pending_vertex_x = <<>>])
          [] r.tag = "Some" /\ c = 30 ->
                IF l.block_scale_next_code = <<30>>
                THEN IF ~parses THEN bad("block scale Z does not parse")
                     ELSE ContinueWith(m, [l EXCEPT !.block_scale[3] = x,
                                                    !.block_scale_next_code = <<>>])
                ELSE Continue(m)
          [] r.tag = "Some" /\ c = 12 ->
                IF ~parses THEN bad("content location X does not parse")
                ELSE ContinueWith(m, [l EXCEPT !.content_location_pending_x = <<x>>])
          [] r.tag = "Some" /\ c = 22 ->
                IF l.content_location_pending_x = <<>> THEN bad("content location Y before its X")
                ELSE IF ~parses THEN bad("content location Y does not parse")
                ELSE ContinueWith(m, [l EXCEPT
                        !.content_location = <<(<<l.content_location_pending_x[1], x>>)>>,
                        !.content_location_pending_x = <<>>])
          [] r.tag = "Some" /\ c = 91 ->
                IF l.current_line # <<>>
                THEN ContinueWith(m, [l EXCEPT !.leader_lines = Append(@, l.current_line),
                                               !.current_line = <<>>])
                ELSE Continue(m)
          [] r.tag = "Some" /\ c \in {302, 303, 304} ->
                (LET trimmed == TrimEndCR(v)
                 IN  CASE trimmed = "LEADER{" -> ContinueWith(m, [l EXCEPT !.in_leader_section = TRUE])
                       [] trimmed \in {"LEADER_LINE{", "}", ""} -> Continue(m)
                       [] OTHER -> ContinueWith(m, [l EXCEPT !.text_lines = Append(@, trimmed)]))
          [] r.tag = "Some" /\ c = 40 ->
                IF ~parses THEN bad("scale or dogleg length does not parse")
                ELSE IF l.in_leader_section
                THEN ContinueWith(m, [l EXCEPT !.dogleg_length = <<x>>])
                ELSE ContinueWith(m, [l EXCEPT !.scale = <<x>>])
          [] r.tag = "Some" /\ c \in {305, 306, 307} ->
                IF TrimEndCR(v) = "}"
                THEN ContinueWith(m, [l EXCEPT !.in_leader_section = FALSE])
                ELSE Continue(m)
          [] r.tag = "Some" /\ c = 15 ->
                IF ~parses THEN bad("block location X does not parse")
                ELSE ContinueWith(m, [l EXCEPT !.block_location_x = <<x>>])
          [] r.tag = "Some" /\ c = 25 ->
                IF ~parses THEN bad("block location Y does not parse")
                ELSE ContinueWith(m, [l EXCEPT !.block_location_y = <<x>>])
          [] r.tag = "Some" /\ c = 172 ->
                IF Trim(v) \notin DOMAIN ParseI16 THEN bad("content type does not parse")
                ELSE ContinueWith(m, [l EXCEPT !.content_type = <<ParseI16[Trim(v)]>>])
          [] r.tag = "Some" /\ c = 344 ->
                IF Trim(v) # ""
                THEN ContinueWith(m, [l EXCEPT !.block_handle = Trim(v),
                                               !.block_scale_next_code = <<10>>])
                ELSE Continue(m)
          [] r.tag = "Some" /\ c = 43 ->
                IF ~parses THEN bad("block rotation does not parse")
                ELSE ContinueWith(m, [l EXCEPT !.block_rotation = <<x>>])
          [] r.tag = "Some" /\ c = 176 ->
                IF Trim(v) \notin DOMAIN ParseI16 THEN bad("block connection type does not parse")
                ELSE ContinueWith(m, [l EXCEPT !.block_connection_type = <<ParseI16[Trim(v)]>>])
          [] r.tag = "Some" /\ c \in {41, 42, 62, 90, 340} -> Continue(m)

\* The local variables parse_arc starts with.
ArcLocals ==
    [layer |-> None, center_x |-> <<>>, center_y |-> <<>>, radius |-> <<>>,
     start_angle |-> <<>>, end_angle |-> <<>>]

\* DxfParser::parse_arc, what follows the loop.
parse_arc_end(m, l) ==
    LET missing(field, code) ==
            [kind |-> "Invalid", message |-> "ARC lacks a field", code |-> code,
             field |-> field]
    IN  IF l.center_x = <<>> THEN Raise(m, missing("center_x", 10))
        ELSE IF l.center_y = <<>> THEN Raise(m, missing("center_y", 20))
        ELSE IF l.radius = <<>> THEN Raise(m, missing("radius", 40))
        ELSE IF l.start_angle = <<>> THEN Raise(m, missing("start_angle", 50))
        ELSE IF l.end_angle = <<>> THEN Raise(m, missing("end_angle", 51))
        ELSE Return(m, [kind |-> "Arc", center |-> <<l.center_x[1], l.center_y[1]>>,
                        radius |-> l.radius[1], start_angle |-> l.start_angle[1],
                        end_angle |-> l.end_angle[1],
                        layer |-> IF l.layer = None THEN "0" ELSE l.layer])

\* One of the ARC fields: a second occurrence is an error; an angle is converted as it is
\* read.
arc_field(m, field, code, value, is_angle) ==
    LET l == Top(m).locals
    IN  IF l[field] # <<>>
        THEN Raise(m, [kind |-> "Invalid", message |-> "ARC repeated field", code |-> code,
                       field |-> field])
        ELSE IF Trim(value) \notin DOMAIN ParseF64
        THEN Raise(m, [kind |-> "Invalid", message |-> "ARC number does not parse",
                       field |-> field])
        ELSE ContinueWith(m, [l EXCEPT ![field] =
                <<IF is_angle THEN to_radians(ParseF64[Trim(value)])
                  ELSE ParseF64[Trim(value)]>>])

\* DxfParser::parse_arc, the loop.
parse_arc(m, r) ==
    LET l == Top(m).locals
        c == r.pair.code
        v == r.pair.value
    IN  CASE r.tag = "Err" -> Raise(m, ReaderError(r))
          [] r.tag = "None" -> Raise(m, Invalid("ARC not properly ended"))
          [] r.tag = "Some" /\ c = 0 ->
                (LET p == put_back(m.reader, r.pair)
                 IN  IF p.panicked THEN [m EXCEPT !.status = "panicked"]
                     ELSE parse_arc_end([m EXCEPT !.reader = p.reader], l))
          [] r.tag = "Some" /\ c = 8 -> ContinueWith(m, [l EXCEPT !.layer = Trim(v)])
          [] r.tag = "Some" /\ c = 10 -> arc_field(m, "center_x", 10, v, FALSE)
          [] r.tag = "Some" /\ c = 20 -> arc_field(m, "center_y", 20, v, FALSE)
          [] r.tag = "Some" /\ c = 40 -> arc_field(m, "radius", 40, v, FALSE)
          [] r.tag = "Some" /\ c = 50 -> arc_field(m, "start_angle", 50, v, TRUE)
          [] r.tag = "Some" /\ c = 51 -> arc_field(m, "end_angle", 51, v, TRUE)
          [] r.tag = "Some" /\ c \notin {0, 8, 10, 20, 40, 50, 51} -> Continue(m)

\* Ok(value) of a Result.
Ok(value) == [ok |-> TRUE, value |-> value]

\* Err(err) of a Result.
Err(err) == [ok |-> FALSE, err |-> err]

\* PartialLoop::new of parse_hatch.
PartialLoop_new(flags) ==
    [is_polyline |-> Bit(flags, 2), has_bulge |-> FALSE, is_closed |-> FALSE,
     expected_vertices |-> <<>>, poly_vertices |-> <<>>, boundary_handles |-> <<>>,
     edges |-> <<>>, pending_vertex_x |-> <<>>]

\* EdgeBuilder::new of parse_hatch (the spline builder of edge type 4 is left out).
EdgeBuilder_new(edge_type) ==
    CASE edge_type = 1 -> Ok([type |-> "Line", start |-> <<>>, end |-> <<>>])
      [] edge_type = 2 ->
            Ok([type |-> "Arc", center |-> <<>>, radius |-> <<>>, start_angle |-> <<>>,
                end_angle |-> <<>>, is_counter_clockwise |-> TRUE])
      [] edge_type = 3 ->
            Ok([type |-> "Ellipse", center |-> <<>>, major_axis |-> <<>>, minor_ratio |-> <<>>,
                start_angle |-> <<>>, end_angle |-> <<>>, is_counter_clockwise |-> TRUE])
      [] edge_type \notin {1, 2, 3, 4} -> Err(Unsupported("HATCH boundary type not supported"))

\* EdgeBuilder::finish of parse_hatch.
EdgeBuilder_finish(b) ==
    CASE b.type = "Line" ->
            IF b.start = <<>> THEN Err(Invalid("HATCH line edge lacks its start"))
            ELSE IF b.end = <<>> THEN Err(Invalid("HATCH line edge lacks its end"))
            ELSE Ok([kind |-> "Line", start |-> b.start[1], end |-> b.end[1]])
      [] b.type = "Arc" ->
            IF b.center = <<>> THEN Err(Invalid("HATCH arc edge lacks its centre"))
            ELSE IF b.radius = <<>> THEN Err(Invalid("HATCH arc edge lacks its radius"))
            ELSE IF b.start_angle = <<>> THEN Err(Invalid("HATCH arc edge lacks its start angle"))
            ELSE IF b.end_angle = <<>> THEN Err(Invalid("HATCH arc edge lacks its end angle"))
            ELSE Ok([kind |-> "Arc", center |-> b.center[1], radius |-> b.radius[1],
                     start_angle |-> f64_as_radians(b.start_angle[1]),
                     end_angle |-> f64_as_radians(b.end_angle[1]),
                     is_counter_clockwise |-> b.is_counter_clockwise])
      [] b.type = "Ellipse" ->
            IF b.center = <<>> THEN Err(Invalid("HATCH ellipse edge lacks its centre"))
            ELSE IF b.major_axis = <<>> THEN Err(Invalid("HATCH ellipse edge lacks its major axis"))
            ELSE IF b.minor_ratio = <<>> THEN Err(Invalid("HATCH ellipse edge lacks its ratio"))
            ELSE IF b.start_angle = <<>>
            THEN Err(Invalid("HATCH ellipse edge lacks its start angle"))
            ELSE IF b.end_angle = <<>> THEN Err(Invalid("HATCH ellipse edge lacks its end angle"))
            ELSE Ok([kind |-> "Ellipse", center |-> b.center[1], major_axis |-> b.major_axis[1],
                     minor_ratio |-> b.minor_ratio[1],
                     start_angle |-> f64_as_radians(b.start_angle[1]),
                     end_angle |-> f64_as_radians(b.end_angle[1]),
                     is_counter_clockwise |-> b.is_counter_clockwise])

\* PartialLoop::finalize_edge_builder: builder is <<>> or <<b>>.
finalize_edge_builder(loop, builder) ==
    IF builder = <<>> THEN Ok(loop)
    ELSE LET edge == EdgeBuilder_finish(builder[1])
         IN  IF edge.ok THEN Ok([loop EXCEPT !.edges = Append(@, edge.value)]) ELSE edge

\* The PolylineSegment from vertex `from` to vertex `to` of the loop.
PolylineSegment(loop, from, to) ==
    [kind |-> "PolylineSegment", start |-> loop.poly_vertices[from].point,
     end |-> loop.poly_vertices[to].point,
     bulge |-> IF loop.has_bulge THEN loop.poly_vertices[from].bulge ELSE 0]

\* convert_polyline_vertices_to_edges that never closes the loop.
convert_polyline_vertices_to_edges_open(loop) ==
    LET n == Len(loop.poly_vertices)
    IN  IF n < 2 THEN loop
        ELSE [loop EXCEPT !.edges =
                @ \o [i \in 1..(n - 1) |-> PolylineSegment(loop, i, i + 1)]]

\* PartialLoop::convert_polyline_vertices_to_edges.
convert_polyline_vertices_to_edges(loop) ==
    LET n == Len(loop.poly_vertices)
    IN  IF n < 2 THEN loop
        ELSE [loop EXCEPT !.edges =
                @ \o [i \in 1..(n - 1) |-> PolylineSegment(loop, i, i + 1)]
                  \o IF loop.is_closed THEN <<PolylineSegment(loop, n, 1)>> ELSE <<>>]

\* PartialLoop::finalize.
PartialLoop_finalize(loop) ==
    IF /\ loop.is_polyline
       /\ loop.expected_vertices # <<>>
       /\ loop.expected_vertices[1] # Len(loop.poly_vertices)
    THEN Err(Invalid("HATCH polyline loop: declared vertex count differs from the actual"))
    ELSE LET converted == IF loop.is_polyline THEN convert_polyline_vertices_to_edges(loop)
                          ELSE loop
         IN  IF converted.pending_vertex_x # <<>>
             THEN Err(Invalid("HATCH vertex X lacks its Y"))
             ELSE Ok([is_polyline |-> converted.is_polyline, is_closed |-> converted.is_closed,
                      edges |-> converted.edges,
                      boundary_handles |-> converted.boundary_handles])

\* The local variables parse_hatch starts with (of the gradient builder the switch and the
\* angle are kept; shift, tint, colours and name are left out).
HatchLocals ==
    [layer |-> None, pattern_name |-> "SOLID", is_solid |-> FALSE, loops |-> <<>>,
     current_loop |-> <<>>, edge_builder |-> <<>>,
     gradient_builder |-> [enabled |-> FALSE, angle |-> <<>>]]

\* finalize_loop of parse_hatch: the local variables after it, or its Err.
finalize_loop(l) ==
    IF l.current_loop = <<>> THEN Ok(l)
    ELSE LET with_edge == finalize_edge_builder(l.current_loop[1], l.edge_builder)
         IN  IF ~with_edge.ok THEN with_edge
             ELSE LET finished == PartialLoop_finalize(with_edge.value)
                  IN  IF ~finished.ok THEN finished
                      ELSE Ok([l EXCEPT !.current_loop = <<>>, !.edge_builder = <<>>,
                                        !.loops = Append(@, finished.value)])

\* GradientBuilder::finish: <<>> is None.
GradientBuilder_finish(g) ==
    IF ~g.enabled THEN <<>>
    ELSE <<[name |-> "LINEAR",
           angle |-> f64_as_radians(IF g.angle = <<>> THEN 0 ELSE g.angle[1])]>>

\* DxfParser::parse_hatch, what follows the loop.
parse_hatch_end(m, l) ==
    IF l.loops = <<>> THEN Raise(m, Invalid("HATCH lacks a boundary definition"))
    ELSE Return(m, [kind |-> "Hatch", pattern_name |-> l.pattern_name,
                    is_solid |-> l.is_solid, loops |-> l.loops,
                    gradient |-> GradientBuilder_finish(l.gradient_builder),
                    layer |-> IF l.layer = None THEN "0" ELSE l.layer])

\* An Option<Point2> after `get_or_insert(Point2::new(0.0, 0.0))` and the assignment of one
\* coordinate (axis 1 is x, axis 2 is y).
SetCoordinate(point, axis, value) ==
    <<[(IF point = <<>> THEN <<0, 0>> ELSE point[1]) EXCEPT ![axis] = value]>>

\* DxfParser::parse_hatch, the loop (the arms that serve only the spline builder and the
\* gradient's colours, shift, tint and name are left out).
parse_hatch(m, r) ==
    LET l == Top(m).locals
        c == r.pair.code
        v == r.pair.value
        parses == Trim(v) \in DOMAIN ParseF64
        x == ParseF64[Trim(v)]
        is_int == Trim(v) \in DOMAIN ParseI32
        n == ParseI32[Trim(v)]
        bad(what) == Raise(m, [kind |-> "Invalid", message |-> what, code |-> c])
        has_loop == l.current_loop # <<>>
        loop == l.current_loop[1]
        has_builder == l.edge_builder # <<>>
        b == l.edge_builder[1]
        in_polyline == has_loop /\ loop.is_polyline /\ ~has_builder
        with_loop(new) == ContinueWith(m, [l EXCEPT !.current_loop = <<new>>])
        with_builder(new) == ContinueWith(m, [l EXCEPT !.edge_builder = <<new>>])
    IN  CASE r.tag = "Err" -> Raise(m, ReaderError(r))
          [] r.tag = "None" -> Raise(m, Invalid("HATCH not properly ended"))
          [] r.tag = "Some" /\ c = 0 ->
                (LET done == finalize_loop(l)
                     p == put_back(m.reader, r.pair)
                 IN  IF ~done.ok THEN Raise(m, done.err)
                     ELSE IF p.panicked THEN [m EXCEPT !.status = "panicked"]
                     ELSE parse_hatch_end([m EXCEPT !.reader = p.reader], done.value))
          [] r.tag = "Some" /\ c = 8 -> ContinueWith(m, [l EXCEPT !.layer = Trim(v)])
          [] r.tag = "Some" /\ c = 2 -> ContinueWith(m, [l EXCEPT !.pattern_name = Trim(v)])
          [] r.tag = "Some" /\ c = 70 ->
                IF Trim(v) \notin DOMAIN ParseI16 THEN bad("HATCH flag does not parse")
                ELSE ContinueWith(m, [l EXCEPT !.is_solid = Bit(ParseI16[Trim(v)], 1)])
          [] r.tag = "Some" /\ c \in {91, 97, 451} ->
                IF ~is_int THEN bad("HATCH count does not parse") ELSE Continue(m)
          [] r.tag = "Some" /\ c = 92 ->
                (LET done == finalize_loop(l)
                 IN  IF ~done.ok THEN Raise(m, done.err)
                     ELSE IF ~is_int THEN bad("HATCH loop type does not parse")
                     ELSE ContinueWith(m, [done.value EXCEPT
                                            !.current_loop = <<PartialLoop_new(n)>>]))
          [] r.tag = "Some" /\ c = 93 ->
                IF ~has_loop THEN Continue(m)
                ELSE IF ~is_int THEN bad("HATCH edge count does not parse")
                ELSE with_loop([loop EXCEPT !.expected_vertices = <<n>>])
          [] r.tag = "Some" /\ c = 72 ->
                IF ~has_loop THEN Raise(m, Invalid("HATCH edge definition without a loop"))
                ELSE IF in_polyline
                THEN IF ~is_int THEN bad("HATCH polyline bulge flag does not parse")
                     ELSE with_loop([loop EXCEPT !.has_bulge = (n # 0)])
                ELSE (LET with_edge == finalize_edge_builder(loop, l.edge_builder)
                          builder == EdgeBuilder_new(n)
                      IN  IF ~with_edge.ok THEN Raise(m, with_edge.err)
                          ELSE IF ~is_int THEN bad("HATCH edge type does not parse")
                          ELSE IF ~builder.ok THEN Raise(m, builder.err)
                          ELSE ContinueWith(m, [l EXCEPT !.current_loop = <<with_edge.value>>,
                                                         !.edge_builder = <<builder.value>>]))
          [] r.tag = "Some" /\ c = 73 ->
                IF ~has_loop THEN Continue(m)
                ELSE IF in_polyline
                THEN IF ~is_int THEN bad("HATCH polyline closed flag does not parse")
                     ELSE with_loop([loop EXCEPT !.is_closed = (n # 0)])
                ELSE IF has_builder /\ b.type \in {"Arc", "Ellipse"}
                THEN IF ~is_int THEN bad("HATCH edge direction flag does not parse")
                     ELSE with_builder([b EXCEPT !.is_counter_clockwise = (n # 0)])
                ELSE Continue(m)
          [] r.tag = "Some" /\ c = 330 ->
                IF has_loop THEN with_loop([loop EXCEPT !.boundary_handles = Append(@, Trim(v))])
                ELSE Continue(m)
          [] r.tag = "Some" /\ c = 10 ->
                IF ~has_loop THEN Continue(m)
                ELSE IF in_polyline
                THEN IF loop.pending_vertex_x # <<>> THEN bad("HATCH polyline vertex X repeated")
                     ELSE IF ~parses THEN bad("HATCH vertex X does not parse")
                     ELSE with_loop([loop EXCEPT !.pending_vertex_x = <<x>>])
                ELSE IF ~has_builder THEN Continue(m)
                ELSE IF ~parses THEN bad("HATCH edge X does not parse")
                ELSE IF b.type = "Line" THEN with_builder([b EXCEPT !.start = SetCoordinate(@, 1, x)])
                ELSE with_builder([b EXCEPT !.center = SetCoordinate(@, 1, x)])
          [] r.tag = "Some" /\ c = 20 ->
                IF ~has_loop THEN Continue(m)
                ELSE IF in_polyline
                THEN IF ~parses THEN bad("HATCH vertex Y does not parse")
                     ELSE IF loop.pending_vertex_x = <<>> THEN bad("HATCH vertex Y before its X")
                     ELSE with_loop([loop EXCEPT
                            !.poly_vertices = Append(@, [point |-> <<loop.pending_vertex_x[1], x>>,
                                                         bulge |-> 0]),
                            !.pending_vertex_x = <<>>])
                ELSE IF ~has_builder THEN Continue(m)
                ELSE IF ~parses THEN bad("HATCH edge Y does not parse")
                ELSE IF b.type = "Line" THEN with_builder([b EXCEPT !.start = SetCoordinate(@, 2, x)])
                ELSE with_builder([b EXCEPT !.center = SetCoordinate(@, 2, x)])
          [] r.tag = "Some" /\ c \in {11, 21} ->
                IF ~has_builder \/ b.type = "Arc" THEN Continue(m)
                ELSE IF ~parses THEN bad("HATCH edge end or axis does not parse")
                ELSE IF b.type = "Line"
                THEN with_builder([b EXCEPT !.end = SetCoordinate(@, IF c = 11 THEN 1 ELSE 2, x)])
                ELSE with_builder([b EXCEPT
                        !.major_axis = SetCoordinate(@, IF c = 11 THEN 1 ELSE 2, x)])
          [] r.tag = "Some" /\ c = 40 ->
                IF ~has_builder \/ b.type = "Line" THEN Continue(m)
                ELSE IF ~parses THEN bad("HATCH radius or ratio does not parse")
                ELSE IF b.type = "Arc" THEN with_builder([b EXCEPT !.radius = <<x>>])
                ELSE with_builder([b EXCEPT !.minor_ratio = <<x>>])
          [] r.tag = "Some" /\ c = 42 ->
                IF has_loop /\ loop.is_polyline /\ loop.poly_vertices # <<>>
                THEN IF ~parses THEN bad("HATCH polyline bulge does not parse")
                     ELSE with_loop([loop EXCEPT !.poly_vertices[Len(loop.poly_vertices)].bulge = x])
                ELSE Continue(m)
          [] r.tag = "Some" /\ c = 50 ->
                IF has_builder
                THEN IF b.type = "Line" THEN Continue(m)
                     ELSE IF ~parses THEN bad("HATCH edge start angle does not parse")
                     ELSE with_builder([b EXCEPT !.start_angle = <<x>>])
                ELSE IF ~parses THEN bad("HATCH gradient angle does not parse")
                ELSE ContinueWith(m, [l EXCEPT !.gradient_builder.angle = <<x>>])
          [] r.tag = "Some" /\ c = 51 ->
                IF ~has_builder \/ b.type = "Line" THEN Continue(m)
                ELSE IF ~parses THEN bad("HATCH edge end angle does not parse")
                ELSE with_builder([b EXCEPT !.end_angle = <<x>>])
          [] r.tag = "Some" /\ c = 450 ->
                IF ~is_int THEN bad("HATCH gradient switch does not parse")
                ELSE ContinueWith(m, [l EXCEPT !.gradient_builder.enabled = (n # 0)])
          [] r.tag = "Some" /\ c = 452 ->
                IF ~parses THEN bad("HATCH gradient angle does not parse")
                ELSE ContinueWith(m, [l EXCEPT !.gradient_builder.angle = <<x>>])
          [] r.tag = "Some" /\ c \in {41, 47, 74, 75} -> Continue(m)

\* The local variables parse_image and parse_wipeout start with (those of the placement,
\* the size and the display options are left out).
RasterLocals ==
    [layer |-> None, image_def_handle |-> None, clip_vertices |-> <<>>,
     pending_clip_x |-> <<>>, clip_enabled |-> FALSE, clip_boundary_type |-> <<>>,
     expected_clip_vertices |-> <<>>, clip_mode_value |-> "Outside"]

\* DxfParser::build_raster_clip: <<>> is None, <<clip>> is Some(clip).
build_raster_clip(clip_enabled, clip_boundary_type, expected_clip_vertices, clip_vertices, clip_mode_value) ==
    LET polygon_expected ==
            IF expected_clip_vertices # <<>> /\ expected_clip_vertices[1] > 0
            THEN expected_clip_vertices[1] ELSE 0
        boundary_type ==
            IF clip_boundary_type # <<>> THEN clip_boundary_type[1]
            ELSE IF polygon_expected >= 3 \/ Len(clip_vertices) >= 3 THEN 2 ELSE 1
        treat_as_polygon ==
            boundary_type = 2 \/ polygon_expected >= 3 \/ Len(clip_vertices) >= 3
        xs == {clip_vertices[i][1] : i \in 1..Len(clip_vertices)}
        ys == {clip_vertices[i][2] : i \in 1..Len(clip_vertices)}
        least(S) == CHOOSE x \in S : \A y \in S : x <= y
        greatest(S) == CHOOSE x \in S : \A y \in S : x >= y
    IN  IF ~clip_enabled THEN <<>>
        ELSE IF treat_as_polygon
        THEN IF Len(clip_vertices) >= 3
             THEN <<[type |-> "Polygon", vertices |-> clip_vertices, mode |-> clip_mode_value]>>
             ELSE <<>>
        ELSE IF Len(clip_vertices) >= 2
        THEN <<[type |-> "Rectangle", min |-> <<least(xs), least(ys)>>,
                max |-> <<greatest(xs), greatest(ys)>>, mode |-> clip_mode_value]>>
        ELSE <<>>

\* DxfParser::parse_image, what follows the loop.
parse_image_end(m, l) ==
    IF l.image_def_handle = None
    THEN Raise(m, Invalid("IMAGE lacks the handle of its IMAGEDEF (340)"))
    ELSE Return(m, [kind |-> "RasterImage",
                    layer |-> IF l.layer = None THEN "0" ELSE l.layer,
                    image_def_handle |-> l.image_def_handle,
                    clip |-> build_raster_clip(l.clip_enabled, l.clip_boundary_type,
                                               l.expected_clip_vertices, l.clip_vertices,
                                               l.clip_mode_value)])

\* DxfParser::parse_wipeout, what follows the loop.
parse_wipeout_end(m, l) ==
    Return(m, [kind |-> "Wipeout",
               layer |-> IF l.layer = None THEN "0" ELSE l.layer,
               clip |-> build_raster_clip(l.clip_enabled, l.clip_boundary_type,
                                          l.expected_clip_vertices, l.clip_vertices,
                                          l.clip_mode_value)])

\* The arms of the loops of parse_image and parse_wipeout that read the clip boundary:
\* its switch (71, 76), its type (72, 90), its number of vertices (91), its vertices
\* (14, 24) and its mode (290).
raster_clip_field(m, r) ==
    LET l == Top(m).locals
        c == r.pair.code
        t == Trim(r.pair.value)
        bad == Raise(m, [kind |-> "Invalid", message |-> "clip field does not parse",
                         code |-> c])
    IN  CASE c \in {71, 76} ->
                IF t \notin DOMAIN ParseI16 THEN bad
                ELSE ContinueWith(m, [l EXCEPT !.clip_enabled = ParseI16[t] # 0])
          [] c \in {72, 90} ->
                IF t \notin DOMAIN ParseI16 THEN bad
                ELSE ContinueWith(m, [l EXCEPT !.clip_boundary_type = <<ParseI16[t]>>])
          [] c = 91 ->
                IF t \notin DOMAIN ParseI16 THEN bad
                ELSE ContinueWith(m, [l EXCEPT !.expected_clip_vertices = <<ParseI16[t]>>])
          [] c = 14 ->
                IF t \notin DOMAIN ParseF64 THEN bad
                ELSE ContinueWith(m, [l EXCEPT !.pending_clip_x = <<ParseF64[t]>>])
          [] c = 24 ->
                IF t \notin DOMAIN ParseF64 THEN bad
                ELSE ContinueWith(m, [l EXCEPT
                        !.clip_vertices =
                            Append(@, <<IF l.pending_clip_x = <<>> THEN 0
                                        ELSE l.pending_clip_x[1], ParseF64[t]>>),
                        !.pending_clip_x = <<>>])
          [] c = 290 ->
                IF t \notin DOMAIN ParseI16 THEN bad
                ELSE ContinueWith(m, [l EXCEPT !.clip_mode_value =
                        IF ParseI16[t] # 0 THEN "Inside" ELSE "Outside"])

\* DxfParser::parse_image, the loop.
parse_image(m, r) ==
    LET l == Top(m).locals
        c == r.pair.code
    IN  CASE r.tag = "Err" -> Raise(m, ReaderError(r))
          [] r.tag = "None" -> Raise(m, Invalid("IMAGE not properly ended"))
          [] r.tag = "Some" /\ c = 0 ->
                (LET p == put_back(m.reader, r.pair)
                 IN  IF p.panicked THEN [m EXCEPT !.status = "panicked"]
                     ELSE parse_image_end([m EXCEPT !.reader = p.reader], l))
          [] r.tag = "Some" /\ c = 8 ->
                ContinueWith(m, [l EXCEPT !.layer = Trim(r.pair.value)])
          [] r.tag = "Some" /\ c = 340 ->
                ContinueWith(m, [l EXCEPT !.image_def_handle = Trim(r.pair.value)])
          [] r.tag = "Some" /\ c \in {71, 72, 76, 90, 91, 14, 24, 290} ->
                raster_clip_field(m, r)
          [] r.tag = "Some" /\ c \notin {0, 8, 340, 71, 72, 76, 90, 91, 14, 24, 290} ->
                Continue(m)

\* DxfParser::parse_wipeout, the loop.
parse_wipeout(m, r) ==
    LET l == Top(m).locals
        c == r.pair.code
    IN  CASE r.tag = "Err" -> Raise(m, ReaderError(r))
          [] r.tag = "None" -> Raise(m, Invalid("WIPEOUT not properly ended"))
          [] r.tag = "Some" /\ c = 0 ->
                (LET p == put_back(m.reader, r.pair)
                 IN  IF p.panicked THEN [m EXCEPT !.status = "panicked"]
                     ELSE parse_wipeout_end([m EXCEPT !.reader = p.reader], l))
          [] r.tag = "Some" /\ c = 8 ->
                ContinueWith(m, [l EXCEPT !.layer = Trim(r.pair.value)])
          [] r.tag = "Some" /\ c \in {71, 72, 76, 90, 91, 14, 24, 290} ->
                raster_clip_field(m, r)
          [] r.tag = "Some" /\ c \notin {0, 8, 71, 72, 76, 90, 91, 14, 24, 290} ->
                Continue(m)

\* DxfParser::parse_entity: the dispatch on the entity tag.
parse_entity(m, site, kind) ==
    CASE kind = "LINE" -> Call(m, site, "parse_line", LineLocals)
      [] kind = "INSERT" -> Call(m, site, "parse_insert", InsertLocals)
      [] kind = "MULTILEADER" -> Call(m, site, "parse_mleader", MLeaderLocals)
      [] kind = "HATCH" -> Call(m, site, "parse_hatch", HatchLocals)
      [] kind = "ARC" -> Call(m, site, "parse_arc", ArcLocals)
      [] kind = "IMAGE" -> Call(m, site, "parse_image", RasterLocals)
      [] kind = "WIPEOUT" -> Call(m, site, "parse_wipeout", RasterLocals)
      [] kind \notin RecognizedKinds ->
            Raise(Call(m, site, "parse_entity", <<>>),
                  [other |-> kind] @@ Unsupported("entity type not supported"))

\* DxfParser::parse, the loop: one top-level pair.
parse(m, r) ==
    CASE r.tag = "Err" -> Raise(m, ReaderError(r))
      [] r.tag = "None" -> [m EXCEPT !.result = "ok", !.stack = <<>>]
      [] r.tag = "Some" ->
            IF r.pair.code # 0
            THEN Raise(m, Invalid("unexpected group code, expected 0 for SECTION/EOF"))
            ELSE CASE r.pair.value = "SECTION" -> [m EXCEPT !.stack[Len(m.stack)].at = "section_name"]
                   [] r.pair.value = "EOF" ->
                        [m EXCEPT !.result = "ok", !.stack = <<>>, !.saw_eof = TRUE]
                   [] OTHER -> Raise(m, Invalid("unexpected tag, expected SECTION or EOF"))

\* The SECTION arm of parse without the test of the name's group code.
parse_section_name_any_code(m, r) ==
    CASE r.tag = "Err" -> Raise(m, ReaderError(r))
      [] r.tag = "None" -> Raise(m, Invalid("SECTION lacks a name (group 2)"))
      [] r.tag = "Some" ->
            CASE r.pair.value = "ENTITIES" -> Call(m, "call_section", "parse_entities", <<>>)
              [] r.pair.value = "BLOCKS" -> Call(m, "call_section", "parse_blocks", <<>>)
              [] r.pair.value = "OBJECTS" -> Call(m, "call_section", "parse_objects", ObjectsLocals)
              [] OTHER -> Call(m, "call_section", "skip_section", <<>>)

\* DxfParser::parse, the SECTION arm: the name pair and the dispatch on it.
parse_section_name(m, r) ==
    CASE r.tag = "Err" -> Raise(m, ReaderError(r))
      [] r.tag = "None" -> Raise(m, Invalid("SECTION lacks a name (group 2)"))
      [] r.tag = "Some" ->
            IF r.pair.code # 2
            THEN Raise(m, Invalid("SECTION name with another group code, expected 2"))
            ELSE CASE r.pair.value = "ENTITIES" -> Call(m, "call_section", "parse_entities", <<>>)
                   [] r.pair.value = "BLOCKS" -> Call(m, "call_section", "parse_blocks", <<>>)
                   [] r.pair.value = "OBJECTS" -> Call(m, "call_section", "parse_objects", ObjectsLocals)
                   [] OTHER -> Call(m, "call_section", "skip_section", <<>>)

\* skip_section that takes the end of the input for the end of the section.
skip_section_eof_ends(m, r) ==
    CASE r.tag = "Err" -> Raise(m, ReaderError(r))
      [] r.tag = "None" -> Return(m, <<>>)
      [] r.tag = "Some" ->
            IF r.pair.code = 0 /\ r.pair.value = "ENDSEC" THEN Return(m, <<>>) ELSE m

\* DxfParser::skip_section.
skip_section(m, r) ==
    CASE r.tag = "Err" -> Raise(m, ReaderError(r))
      [] r.tag = "None" -> Raise(m, Invalid("SECTION without ENDSEC"))
      [] r.tag = "Some" ->
            IF r.pair.code = 0 /\ r.pair.value = "ENDSEC" THEN Return(m, <<>>) ELSE m

\* DxfParser::parse_entities.
parse_entities(m, r) ==
    CASE r.tag = "Err" -> Raise(m, ReaderError(r))
      [] r.tag = "None" -> Raise(m, Invalid("ENTITIES section ended early"))
      [] r.tag = "Some" ->
            IF r.pair.code # 0
            THEN Raise(m, Invalid("ENTITIES section met a group code, expected 0"))
            ELSE CASE r.pair.value = "ENDSEC" -> Return(m, <<>>)
                   [] r.pair.value = "SEQEND" ->
                        Call(m, "call_skip_seqend", "skip_entity_body", <<>>)
                   [] r.pair.value = "POLYLINE" ->
                        Call(m, "call_polyline", "parse_polyline_entity", PolylineLocals)
                   [] r.pair.value \notin {"ENDSEC", "SEQEND", "POLYLINE"} ->
                        parse_entity(m, "call_parse_entity", r.pair.value)

\* DxfParser::parse_blocks.
parse_blocks(m, r) ==
    CASE r.tag = "Err" -> Raise(m, ReaderError(r))
      [] r.tag = "None" -> Raise(m, Invalid("BLOCKS section ended early"))
      [] r.tag = "Some" ->
            IF r.pair.code # 0
            THEN Raise(m, Invalid("BLOCKS section met a group code, expected 0"))
            ELSE CASE r.pair.value = "ENDSEC" -> Return(m, <<>>)
                   [] r.pair.value = "BLOCK" ->
                        Call(m, "call_block_definition", "parse_block_definition", BlockLocals)
                   [] OTHER -> Call(m, "call_skip", "skip_entity_body", <<>>)

\* str::starts_with('{') on the values of the alphabets.
StartsWithBrace(value) ==
    value = "{R"

\* DxfParser::parse_dictionary.
parse_dictionary(m, r) ==
    LET l == Top(m).locals
        c == r.pair.code
        trimmed == Trim(r.pair.value)
    IN  CASE r.tag = "Err" -> Raise(m, ReaderError(r))
          [] r.tag = "None" -> Raise(m, Invalid("DICTIONARY not properly ended"))
          [] r.tag = "Some" /\ c = 0 ->
                (LET p == put_back(m.reader, r.pair)
                 IN  IF p.panicked THEN [m EXCEPT !.status = "panicked"]
                     ELSE IF l.handle = None
                     THEN Raise([m EXCEPT !.reader = p.reader],
                                Invalid("DICTIONARY lacks its handle (group 5)"))
                     ELSE Return([m EXCEPT !.reader = p.reader],
                                 [handle |-> l.handle, owner |-> l.owner,
                                  entries |-> l.entries]))
          [] r.tag = "Some" /\ c = 5 -> ContinueWith(m, [l EXCEPT !.handle = trimmed])
          [] r.tag = "Some" /\ c = 3 ->
                IF trimmed # "" THEN ContinueWith(m, [l EXCEPT !.pending_entry_name = trimmed])
                ELSE Continue(m)
          [] r.tag = "Some" /\ c = 330 ->
                IF l.in_reactors THEN Continue(m)
                ELSE IF l.pending_entry_name = None
                THEN ContinueWith(m, [l EXCEPT !.owner = trimmed])
                ELSE Continue(m)
          [] r.tag = "Some" /\ c \in {350, 360} ->
                IF l.pending_entry_name = None THEN Continue(m)
                ELSE IF trimmed # ""
                THEN ContinueWith(m, [l EXCEPT
                        !.entries = Append(@, [name |-> l.pending_entry_name,
                                               handle |-> trimmed]),
                        !.pending_entry_name = None])
                ELSE ContinueWith(m, [l EXCEPT !.pending_entry_name = None])
          [] r.tag = "Some" /\ c = 102 ->
                IF StartsWithBrace(trimmed) THEN ContinueWith(m, [l EXCEPT !.in_reactors = TRUE])
                ELSE IF trimmed = "}" THEN ContinueWith(m, [l EXCEPT !.in_reactors = FALSE])
                ELSE Continue(m)
          [] r.tag = "Some" /\ c \notin {0, 5, 3, 330, 350, 360, 102} -> Continue(m)

\* DxfParser::parse_image_def_reactor.
parse_image_def_reactor(m, r) ==
    LET l == Top(m).locals
        c == r.pair.code
        trimmed == Trim(r.pair.value)
    IN  CASE r.tag = "Err" -> Raise(m, ReaderError(r))
          [] r.tag = "None" -> Raise(m, Invalid("IMAGEDEF_REACTOR not properly ended"))
          [] r.tag = "Some" /\ c = 0 ->
                (LET p == put_back(m.reader, r.pair)
                 IN  IF p.panicked THEN [m EXCEPT !.status = "panicked"]
                     ELSE IF l.handle = None
                     THEN Raise([m EXCEPT !.reader = p.reader],
                                Invalid("IMAGEDEF_REACTOR lacks its handle (group 5)"))
                     ELSE Return([m EXCEPT !.reader = p.reader],
                                 [handle |-> l.handle, class_version |-> l.class_version,
                                  owner_handle |-> l.owner_handle,
                                  image_handle |-> l.image_handle]))
          [] r.tag = "Some" /\ c = 5 -> ContinueWith(m, [l EXCEPT !.handle = trimmed])
          [] r.tag = "Some" /\ c = 90 ->
                IF trimmed \notin DOMAIN ParseI32
                THEN Raise(m, [kind |-> "Invalid", code |-> c,
                               message |-> "IMAGEDEF_REACTOR class version does not parse"])
                ELSE ContinueWith(m, [l EXCEPT !.class_version = ParseI32[trimmed]])
          [] r.tag = "Some" /\ c = 100 ->
                ContinueWith(m, [l EXCEPT
                    !.in_reactor_subclass = (trimmed = "AcDbRasterImageDefReactor")])
          [] r.tag = "Some" /\ c = 330 ->
                IF l.in_reactors \/ trimmed = "" THEN Continue(m)
                ELSE IF l.in_reactor_subclass
                THEN ContinueWith(m, [l EXCEPT !.image_handle = trimmed])
                ELSE IF l.owner_handle = None
                THEN ContinueWith(m, [l EXCEPT !.owner_handle = trimmed])
                ELSE Continue(m)
          [] r.tag = "Some" /\ c = 102 ->
                IF StartsWithBrace(trimmed) THEN ContinueWith(m, [l EXCEPT !.in_reactors = TRUE])
                ELSE IF trimmed = "}" THEN ContinueWith(m, [l EXCEPT !.in_reactors = FALSE])
                ELSE Continue(m)
          [] r.tag = "Some" /\ c \notin {0, 5, 90, 100, 330, 102} -> Continue(m)

\* DxfParser::parse_objects, the loop. The loops of parse_image_def and of
\* parse_raster_variables are not stepped through: the two are taken by what they return.
parse_objects(m, r) ==
    CASE r.tag = "Err" -> Raise(m, ReaderError(r))
      [] r.tag = "None" -> Raise(m, Invalid("OBJECTS section ended early"))
      [] r.tag = "Some" ->
            IF r.pair.code # 0
            THEN Raise(m, Invalid("OBJECTS section met a group code, expected 0"))
            ELSE CASE r.pair.value = "ENDSEC" ->
                        Return([m EXCEPT !.doc = attach_raster_variables(
                                    attach_image_dictionary(@, Top(m).locals), Top(m).locals)],
                               <<>>)
                   [] r.pair.value = "IMAGEDEF" ->
                        Call(m, "call_image_def", "parse_image_def", <<>>)
                   [] r.pair.value = "RASTERVARIABLES" ->
                        Call(m, "call_raster_variables", "parse_raster_variables", <<>>)
                   [] r.pair.value = "IMAGEDEF_REACTOR" ->
                        Call(m, "call_image_def_reactor", "parse_image_def_reactor",
                             ReactorLocals)
                   [] r.pair.value = "DICTIONARY" ->
                        Call(m, "call_dictionary", "parse_dictionary", DictionaryLocals)
                   [] r.pair.value \notin {"ENDSEC", "IMAGEDEF", "IMAGEDEF_REACTOR",
                                            "RASTERVARIABLES", "DICTIONARY"} ->
                        Call(m, "call_skip", "skip_entity_body", <<>>)

\* DxfParser::parse_block_definition, the loop.
parse_block_definition(m, r) ==
    LET l == Top(m).locals
    IN  CASE r.tag = "Err" -> Raise(m, ReaderError(r))
          [] r.tag = "None" -> Raise(m, Invalid("BLOCK definition without ENDBLK"))
          [] r.tag = "Some" /\ r.pair.code = 0 ->
                (CASE r.pair.value = "ENDBLK" ->
                        Call(m, "call_skip_endblk", "skip_entity_body", <<>>)
                   [] r.pair.value \notin {"ENDBLK", "ATTDEF"} ->
                        IF l.collect_entities
                        THEN parse_entity(m, "call_parse_entity", r.pair.value)
                        ELSE Call(m, "call_skip_uncollected", "skip_entity_body", <<>>))
          [] r.tag = "Some" /\ r.pair.code # 0 ->
                LET value == r.pair.value
                IN  CASE r.pair.code = 2 ->
                            ContinueWith(m, [l EXCEPT !.collect_entities = ~StartsWithStar(Trim(value)),
                                                      !.name = Trim(value)])
                      [] r.pair.code = 10 ->
                            IF Trim(value) \in DOMAIN ParseF64
                            THEN ContinueWith(m, [l EXCEPT !.base_x = ParseF64[Trim(value)]])
                            ELSE Raise(m, Invalid("BLOCK base point X does not parse"))
                      [] r.pair.code = 20 ->
                            IF Trim(value) \in DOMAIN ParseF64
                            THEN ContinueWith(m, [l EXCEPT !.base_y = ParseF64[Trim(value)]])
                            ELSE Raise(m, Invalid("BLOCK base point Y does not parse"))
                      [] r.pair.code = 330 ->
                            IF Trim(value) # "" /\ l.record_handle = None
                            THEN ContinueWith(m, [l EXCEPT !.record_handle = Trim(value)])
                            ELSE m
                      [] r.pair.code = 5 ->
                            IF Trim(value) # ""
                            THEN ContinueWith(m, [l EXCEPT !.block_handle = Trim(value)])
                            ELSE m
                      [] OTHER -> m

\* assign one LINE coordinate without looking whether the slot is filled.
line_coordinate_replace(m, field, code, value) ==
    LET l == Top(m).locals
    IN  IF Trim(value) \notin DOMAIN ParseF64
        THEN Raise(m, [kind |-> "Invalid", message |-> "LINE coordinate does not parse",
                       field |-> field])
        ELSE ContinueWith(m, [l EXCEPT ![field] = <<ParseF64[Trim(value)]>>])

\* assign one LINE coordinate: a second occurrence and a value that is no number are errors.
line_coordinate(m, field, code, value) ==
    LET l == Top(m).locals
    IN  IF l[field] # <<>>
        THEN Raise(m, [kind |-> "Invalid", message |-> "LINE repeated coordinate",
                       code |-> code, field |-> field])
        ELSE IF Trim(value) \notin DOMAIN ParseF64
        THEN Raise(m, [kind |-> "Invalid", message |-> "LINE coordinate does not parse",
                       field |-> field])
        ELSE ContinueWith(m, [l EXCEPT ![field] = <<ParseF64[Trim(value)]>>])

\* DxfParser::parse_line.
parse_line(m, r) ==
    LET l == Top(m).locals
    IN  CASE r.tag = "Err" -> Raise(m, ReaderError(r))
          [] r.tag = "None" -> Raise(m, Invalid("LINE not properly ended"))
          [] r.tag = "Some" /\ r.pair.code = 0 ->
                (LET p == put_back(m.reader, r.pair)
                     m1 == [m EXCEPT !.reader = p.reader]
                     layer == IF l.layer = None THEN "0" ELSE l.layer
                     missing(field, code) ==
                         [kind |-> "Invalid", message |-> "LINE lacks a coordinate",
                          code |-> code, field |-> field]
                 IN IF p.panicked THEN [m EXCEPT !.status = "panicked"]
                    ELSE IF l.start_x = <<>> THEN Raise(m1, missing("start_x", 10))
                    ELSE IF l.start_y = <<>> THEN Raise(m1, missing("start_y", 20))
                    ELSE IF l.end_x = <<>> THEN Raise(m1, missing("end_x", 11))
                    ELSE IF l.end_y = <<>> THEN Raise(m1, missing("end_y", 21))
                    ELSE Return(m1, [kind |-> "Line",
                                     start |-> <<l.start_x[1], l.start_y[1]>>,
                                     end |-> <<l.end_x[1], l.end_y[1]>>,
                                     layer |-> layer]))
          [] r.tag = "Some" /\ r.pair.code # 0 ->
                CASE r.pair.code = 8 -> ContinueWith(m, [l EXCEPT !.layer = Trim(r.pair.value)])
                  [] r.pair.code = 10 -> line_coordinate(m, "start_x", 10, r.pair.value)
                  [] r.pair.code = 20 -> line_coordinate(m, "start_y", 20, r.pair.value)
                  [] r.pair.code = 11 -> line_coordinate(m, "end_x", 11, r.pair.value)
                  [] r.pair.code = 21 -> line_coordinate(m, "end_y", 21, r.pair.value)
                  [] OTHER -> m

\* assign one coordinate of the INSERT point: a second occurrence and a value that is no
\* number are errors.
insert_coordinate(m, field, code, value) ==
    LET l == Top(m).locals
    IN  IF l[field] # <<>>
        THEN Raise(m, [kind |-> "Invalid", message |-> "INSERT repeated field",
                       code |-> code, field |-> field])
        ELSE IF Trim(value) \notin DOMAIN ParseF64
        THEN Raise(m, [kind |-> "Invalid", message |-> "INSERT number does not parse",
                       field |-> field])
        ELSE ContinueWith(m, [l EXCEPT ![field] = <<ParseF64[Trim(value)]>>])

\* One of the INSERT fields that take the value of their last occurrence.
insert_number(m, field, value, wrap) ==
    IF Trim(value) \notin DOMAIN ParseF64
    THEN Raise(m, [kind |-> "Invalid", message |-> "INSERT number does not parse",
                   field |-> field])
    ELSE ContinueWith(m, [Top(m).locals EXCEPT
                            ![field] = IF wrap THEN <<ParseF64[Trim(value)]>>
                                       ELSE ParseF64[Trim(value)]])

\* DxfParser::parse_insert, the first loop: the fields of the INSERT record.
parse_insert(m, r) ==
    LET l == Top(m).locals
    IN  CASE r.tag = "Err" -> Raise(m, ReaderError(r))
          [] r.tag = "None" -> Raise(m, Invalid("INSERT not properly ended"))
          [] r.tag = "Some" /\ r.pair.code = 0 ->
                (LET p == put_back(m.reader, r.pair)
                     m1 == [m EXCEPT !.reader = p.reader]
                     missing(field, code) ==
                         [kind |-> "Invalid", message |-> "INSERT lacks a field",
                          code |-> code, field |-> field]
                 IN IF p.panicked THEN [m EXCEPT !.status = "panicked"]
                    ELSE IF l.name = None THEN Raise(m1, missing("name", 2))
                    ELSE IF l.insert_x = <<>> THEN Raise(m1, missing("insert_x", 10))
                    ELSE IF l.insert_y = <<>> THEN Raise(m1, missing("insert_y", 20))
                    ELSE [m1 EXCEPT !.stack[Len(m1.stack)].at = "attributes"])
          [] r.tag = "Some" /\ r.pair.code # 0 ->
                LET value == r.pair.value
                IN  CASE r.pair.code = 8 -> ContinueWith(m, [l EXCEPT !.layer = Trim(value)])
                      [] r.pair.code = 2 ->
                            IF l.name # None
                            THEN Raise(m, [kind |-> "Invalid", message |-> "INSERT repeated field",
                                           code |-> 2, field |-> "name"])
                            ELSE ContinueWith(m, [l EXCEPT !.name = Trim(value)])
                      [] r.pair.code = 10 -> insert_coordinate(m, "insert_x", 10, value)
                      [] r.pair.code = 20 -> insert_coordinate(m, "insert_y", 20, value)
                      [] r.pair.code = 41 -> insert_number(m, "scale_x", value, TRUE)
                      [] r.pair.code = 42 -> insert_number(m, "scale_y", value, TRUE)
                      [] r.pair.code = 50 -> insert_number(m, "rotation_deg", value, FALSE)
                      [] OTHER -> m

\* DxfParser::parse_insert, the second loop: the ATTRIB records that follow the INSERT,
\* for records without ATTRIB.
parse_insert_attributes(m, r) ==
    LET l == Top(m).locals
    IN  CASE r.tag = "Err" -> Raise(m, ReaderError(r))
          [] r.tag = "None" -> Return(m, InsertEntity(l))
          [] r.tag = "Some" /\ r.pair.code = 0 /\ r.pair.value = "SEQEND" ->
                Call(m, "call_skip_seqend", "skip_entity_body", <<>>)
          [] r.tag = "Some" /\ r.pair.code = 0 /\ r.pair.value \notin {"SEQEND", "ATTRIB"} ->
                PutBackAndReturn(m, r.pair, InsertEntity(l))
          [] r.tag = "Some" /\ r.pair.code # 0 ->
                Raise(m, [kind |-> "Invalid", message |-> "INSERT attributes met a group code",
                          code |-> r.pair.code])

\* DxfParser::skip_entity_body.
skip_entity_body(m, r) ==
    CASE r.tag = "Err" -> Raise(m, ReaderError(r))
      [] r.tag = "None" -> Return(m, <<>>)
      [] r.tag = "Some" ->
            IF r.pair.code = 0 THEN PutBackAndReturn(m, r.pair, <<>>) ELSE m

-----------------------------------------------------------------------------
(* Spec: DxfParser::parse over a source text, one step per next_pair call. *)

\* The pairs of lines a source text is made of: record and section tags under group 0,
\* section and block names under 2, handles under 5 and 330, a layer under 8, coordinates
\* that parse ("1") or not ("x"), two X scales and a Y scale of an INSERT (41, 42), a group
\* the sub-parsers ignore (62), and a code line that is no integer.
PairAlphabet ==
    {<<"0", v>> : v \in {"SECTION", "EOF", "ENDSEC", "BLOCK", "ENDBLK", "LINE", "INSERT",
                         "SEQEND", "FOO"}}
        \cup {<<"2", v>> : v \in {"ENTITIES", "BLOCKS", "OBJECTS", "HEADER", "B1", "*U"}}
        \cup {<<"5", "h1">>, <<"330", "h2">>, <<" 8 ", "L1">>, <<"62", "1">>}
        \cup {<<c, v>> : c \in {"10", "20", "11", "21"}, v \in {"1", "x"}}
        \cup {<<"41", "1">>, <<"41", "2">>, <<"42", "1">>}
        \cup {<<"A", "1">>}

\* What the text can hold at the reader's position: a pair of lines, a single last line,
\* or nothing.
Chunks ==
    IF reader.buffer # <<>> \/ exhausted \/ reader.line_number >= MaxLines
    THEN {<<>>}
    ELSE PairAlphabet \cup {<<"0">>, <<>>}

\* The machine the variables hold.
Machine ==
    [stack |-> stack, reader |-> reader, doc |-> doc, status |-> status, result |-> result,
     error |-> error, raised |-> raised, saw_eof |-> saw_eof]

\* self.reader.next_pair() with the text continuing as chunk.
Read(chunk) ==
    next_pair([reader EXCEPT !.lines = chunk])

\* The machine after the read: the reader has moved on, the rest of the text is yet to come.
Fed(chunk) ==
    [Machine EXCEPT !.reader = [Read(chunk).reader EXCEPT !.lines = <<>>]]

\* The parse is running inside the function fn at the place at.
At(fn, at) ==
    /\ status = "ok"
    /\ result = "running"
    /\ stack # <<>>
    /\ stack[Len(stack)].fn = fn
    /\ stack[Len(stack)].at = at

\* The variables take the machine m that a step made after reading chunk.
Commit(chunk, m) ==
    /\ stack' = IF m.status = "ok" /\ m.result = "running" THEN m.stack ELSE <<>>
    /\ reader' = m.reader
    /\ doc' = m.doc
    /\ status' = m.status
    /\ result' = m.result
    /\ error' = m.error
    /\ raised' = m.raised
    /\ saw_eof' = m.saw_eof
    /\ exhausted' = (exhausted \/ (reader.buffer = <<>> /\ Len(chunk) < 2))
    /\ UNCHANGED <<returned, file, fpos, clientVars, scene>>

Init ==
    /\ doc = Document_new
    /\ returned = <<>>
    /\ file = <<>>
    /\ fpos = 0
    /\ source = <<>>
    /\ reader = DxfReader_new(<<>>)
    /\ rcall = [op |-> "new"]
    /\ trail = <<>>
    /\ ret = [tag |-> "Unit"]
    /\ status = "ok"
    /\ stack = <<Frame("parse", "loop", <<>>)>>
    /\ result = "running"
    /\ error = <<>>
    /\ raised = {}
    /\ saw_eof = FALSE
    /\ exhausted = FALSE
    /\ SceneIdle

Parse ==
    /\ At("parse", "loop")
    /\ \E chunk \in Chunks : Commit(chunk, parse(Fed(chunk), Read(chunk).ret))

ParseSectionName ==
    /\ At("parse", "section_name")
    /\ \E chunk \in Chunks : Commit(chunk, parse_section_name(Fed(chunk), Read(chunk).ret))

SkipSection ==
    /\ At("skip_section", "loop")
    /\ \E chunk \in Chunks : Commit(chunk, skip_section(Fed(chunk), Read(chunk).ret))

ParseEntities ==
    /\ At("parse_entities", "loop")
    /\ \E chunk \in Chunks : Commit(chunk, parse_entities(Fed(chunk), Read(chunk).ret))

ParseBlocks ==
    /\ At("parse_blocks", "loop")
    /\ \E chunk \in Chunks : Commit(chunk, parse_blocks(Fed(chunk), Read(chunk).ret))

ParseObjects ==
    /\ At("parse_objects", "loop")
    /\ \E chunk \in Chunks : Commit(chunk, parse_objects(Fed(chunk), Read(chunk).ret))

ParseBlockDefinition ==
    /\ At("parse_block_definition", "loop")
    /\ \E chunk \in Chunks : Commit(chunk, parse_block_definition(Fed(chunk), Read(chunk).ret))

ParseLine ==
    /\ At("parse_line", "loop")
    /\ \E chunk \in Chunks : Commit(chunk, parse_line(Fed(chunk), Read(chunk).ret))

ParseInsert ==
    /\ At("parse_insert", "loop")
    /\ \E chunk \in Chunks : Commit(chunk, parse_insert(Fed(chunk), Read(chunk).ret))

ParseInsertAttributes ==
    /\ At("parse_insert", "attributes")
    /\ \E chunk \in Chunks :
        Commit(chunk, parse_insert_attributes(Fed(chunk), Read(chunk).ret))

SkipEntityBody ==
    /\ At("skip_entity_body", "loop")
    /\ \E chunk \in Chunks : Commit(chunk, skip_entity_body(Fed(chunk), Read(chunk).ret))

Next ==
    \/ Parse
    \/ ParseSectionName
    \/ SkipSection
    \/ ParseEntities
    \/ ParseBlocks
    \/ ParseObjects
    \/ ParseBlockDefinition
    \/ ParseLine
    \/ ParseInsert
    \/ ParseInsertAttributes
    \/ SkipEntityBody

Spec == Init /\ [][Next]_vars

C10_DocumentOnlyAfterEOF ==
    result = "ok" => saw_eof

\* A SECTION record has been read and its ENDSEC has not: parse waits for the section's
\* name or for the function that reads the section.
InSection(stk) ==
    \/ Len(stk) >= 2
    \/ Len(stk) = 1 /\ stk[1].at = "section_name"

\* C11: once the input has ended inside a section, every step of the parse either fails
\* or stays inside the section with one function less on the call stack, so the parse
\* ends in an error and never returns a Document.
C11_EndInsideSectionFails ==
    [][(exhausted' /\ InSection(stack))
        => \/ result' = "err"
           \/ result' = "running" /\ InSection(stack') /\ Len(stack') < Len(stack)]_vars

\* C11 witness: the input ended right after a block's ENDBLK; the block was registered and
\* the BLOCKS loop then failed on the end of the input.
C11_Witness ==
    /\ exhausted
    /\ result = "err"
    /\ error[1].message = "BLOCKS section ended early"
    /\ "B1" \in DOMAIN doc.blocks

-----------------------------------------------------------------------------
(* DxfFacade::load: the error a failed parse is reported as.               *)

\* The map_err of DxfFacade::load.
DxfFacade_load_error(err) ==
    IF err.kind = "Unsupported" THEN "UnsupportedFeature" ELSE "InvalidDocument"

\* The group-0 tags of the grammar's own structure: met where an entity tag is expected,
\* they show a section or block that was not closed, or closed twice.
StructuralTags == {"SECTION", "ENDSEC", "EOF", "BLOCK", "ENDBLK"}

\* C12: a load that fails with UnsupportedFeature failed on a well-formed construct that is
\* not implemented (an entity tag parse_entity does not know), never on a violation of the
\* grammar such as a section that is not closed before EOF or the next SECTION.
C12_UnsupportedOnlyForWellFormed ==
    (result = "err" /\ DxfFacade_load_error(error[1]) = "UnsupportedFeature")
        => error[1].other \notin StructuralTags

-----------------------------------------------------------------------------
(* The field slots of the entity sub-parsers.                              *)

\* parse_insert is reading the fields of an INSERT record.
ReadingInsert(stk) ==
    /\ stk # <<>>
    /\ stk[Len(stk)].fn = "parse_insert"
    /\ stk[Len(stk)].at = "loop"

\* C13: while a sub-parser reads the fields of one record, a numeric field that holds a
\* value keeps it: a second occurrence is an error and never replaces the earlier value.
C13_RepeatedFieldNeverReplaces ==
    [][(ReadingInsert(stack) /\ ReadingInsert(stack') /\ Len(stack') = Len(stack))
        => \A field \in {"insert_x", "insert_y", "scale_x", "scale_y"} :
                stack[Len(stack)].locals[field] # <<>>
                    => stack'[Len(stack)].locals[field] = stack[Len(stack)].locals[field]]_vars

\* The slot of parse_line a coordinate group code fills.
LineField ==
    (10 :> "start_x") @@ (20 :> "start_y") @@ (11 :> "end_x") @@ (21 :> "end_y")

\* The code line of a coordinate group code.
CodeLine ==
    (10 :> "10") @@ (20 :> "20") @@ (11 :> "11") @@ (21 :> "21")

\* C14: wherever parse_line has a coordinate slot filled, reading the same group code
\* again, with whatever value, ends the parse with an InvalidDocument error that names
\* that group code.
C14_RepeatedLineCoordinateFails ==
    At("parse_line", "loop") =>
        \A code \in DOMAIN LineField, value \in {"1", "x"} :
            stack[Len(stack)].locals[LineField[code]] # <<>> =>
                LET chunk == <<CodeLine[code], value>>
                    m == parse_line(Fed(chunk), Read(chunk).ret)
                IN  /\ m.result = "err"
                    /\ DxfFacade_load_error(m.error[1]) = "InvalidDocument"
                    /\ m.error[1].message = "LINE repeated coordinate"
                    /\ m.error[1].code = code

\* C14 witness: a LINE whose group 10 came twice before any group 20 made the parse fail
\* with the error that names group code 10.
C14_Witness ==
    /\ result = "err"
    /\ error[1].message = "LINE repeated coordinate"
    /\ error[1].code = 10
    /\ reader.line_number = 10

-----------------------------------------------------------------------------
(* Blocks whose name begins with '*'.                                      *)

\* The block names of the alphabet that begin with '*'.
StarNames == {"*U"}

\* The frames of parse_block_definition that hold a name beginning with '*'.
StarBlockFrames(stk) ==
    {i \in 1..Len(stk) : stk[i].fn = "parse_block_definition" /\ stk[i].locals.name \in StarNames}

\* C15: no block whose name begins with '*' is registered: at every moment of a parse, and
\* so after a successful one, no such name is a key of the block table or a value of the
\* block-handle alias table, every alias leads to a registered block, and no step taken
\* while such a block is being parsed, its return to parse_blocks included, changes the
\* Document, so its block handle and record handle are never entered.
C15_StarBlocksNotRegistered ==
    /\ [](/\ DOMAIN doc.blocks \cap StarNames = {}
          /\ \A h \in DOMAIN doc.block_handles :
                doc.block_handles[h] \in DOMAIN doc.blocks \ StarNames)
    /\ [][StarBlockFrames(stack) # {} => doc' = doc]_vars

\* C15 witness: the ENDBLK of a block named "*U" that carries a block handle and a record
\* handle has been read.
C15_Witness ==
    /\ Len(stack) = 4
    /\ stack[3].fn = "parse_block_definition"
    /\ stack[3].at = "call_skip_endblk"
    /\ stack[3].locals.name = "*U"
    /\ stack[3].locals.block_handle = "h1"
    /\ stack[3].locals.record_handle = "h2"

-----------------------------------------------------------------------------
(* The attributes of a stored BlockReference.                              *)

\* The entity an add operation stored last in the document it returned.
StoredBy(r) ==
    r.doc.entities[Len(r.doc.entities)].entity

\* C16: in every state of the Document, adding a BlockReference with an empty attribute
\* list for a registered block stores one Attribute per ATTDEF of the block, in definition
\* order, with the ATTDEF's tag and its default text as value; adding it with a non-empty
\* list stores that list unchanged.
C16_AttributesMaterialized ==
    \A name \in DOMAIN doc.blocks :
        /\ LET defs == doc.blocks[name].attributes
               attrs == StoredBy(add_block_reference(doc, name, <<>>, "0")).attributes
           IN  /\ Len(attrs) = Len(defs)
               /\ \A i \in 1..Len(defs) :
                    attrs[i].tag = defs[i].tag /\ attrs[i].text = defs[i].default_text
        /\ \A explicit \in ExplicitAttributes \ {<<>>} :
               StoredBy(add_block_reference(doc, name, explicit, "0")).attributes = explicit

\* C16 witness: a stored BlockReference of the registered block B1 holds the two
\* attributes made from B1's ATTDEFs, "ID" with "100" first.
C16_Witness ==
    \E i \in 1..Len(doc.entities) :
        LET e == doc.entities[i].entity
        IN  /\ e.kind = "BlockReference"
            /\ e.name \in DOMAIN doc.blocks
            /\ Len(doc.blocks[e.name].attributes) = 2
            /\ Len(e.attributes) = 2
            /\ e.attributes[1].tag = "ID" /\ e.attributes[1].text = "100"
            /\ e.attributes[2].tag = "NM" /\ e.attributes[2].text = "n"

\* C17: a stored BlockReference that holds no attribute holds none after any later
\* operation: registering its block afterwards adds no attribute to it.
C17_NoRetroactiveAttributes ==
    [][\A i \in 1..Len(doc.entities) :
        (doc.entities[i].entity.kind = "BlockReference"
                /\ doc.entities[i].entity.attributes = <<>>)
            => /\ Len(doc'.entities) >= i
               /\ doc'.entities[i].entity.kind = "BlockReference"
               /\ doc'.entities[i].entity.attributes = <<>>]_vars

\* C17 witness: a stored BlockReference without attributes whose block is registered
\* with ATTDEFs: the block was registered after the reference was added.
C17_Witness ==
    \E i \in 1..Len(doc.entities) :
        LET e == doc.entities[i].entity
        IN  /\ e.kind = "BlockReference"
            /\ e.attributes = <<>>
            /\ e.name \in DOMAIN doc.blocks
            /\ Len(doc.blocks[e.name].attributes) = 2

-----------------------------------------------------------------------------
(* What entity(id) returns over time.                                      *)

\* after is before, or before with its unresolved MLeader block name filled.
SameOrNameFilled(before, after) ==
    \/ after = before
    \/ /\ before.kind = "MLeader" /\ after.kind = "MLeader"
       /\ before.content.type = "Block" /\ after.content.type = "Block"
       /\ before.content.block.block_name = None
       /\ after.content.block.block_name # None
       /\ after = [before EXCEPT !.content.block.block_name = after.content.block.block_name]

\* C18: entity(id) returns for every id an add operation returned the entity that
\* operation stored, from the state after the call on; no later operation changes what it
\* returns, except that an MLeader block name that was unresolved may get filled.
C18_EntityStable ==
    /\ [](\A i \in 1..Len(returned) : Document_entity(doc, returned[i]) = <<doc.entities[i].entity>>)
    /\ [][\A i \in 1..Len(returned) :
            /\ Document_entity(doc', returned[i]) # <<>>
            /\ SameOrNameFilled(Document_entity(doc, returned[i])[1], Document_entity(doc', returned[i])[1])]_vars

\* C18 witness: an MLeader stored with block name B2 under handle h1 still has that name
\* where the alias table leads h1 to B1, and another entity has been added after it.
C18_Witness ==
    /\ Len(returned) = 2
    /\ "h1" \in DOMAIN doc.block_handles
    /\ doc.block_handles["h1"] = "B1"
    /\ Document_entity(doc, returned[1]) =
            <<[kind |-> "MLeader", layer |-> "0",
               content |-> [type |-> "Block",
                            block |-> [block_handle |-> "h1", block_name |-> "B2"]]]>>

\* C19: entities() yields the stored entities in the order they were added, which is
\* ascending id order, and every operation leaves the entities it finds in their places,
\* adding at most one at the end.
C19_EntitiesInAddOrder ==
    /\ [](/\ Len(entities(doc)) = Len(returned)
          /\ \A i \in 1..Len(returned) : entities(doc)[i].id = returned[i]
          /\ \A i, j \in 1..Len(entities(doc)) :
                i < j => entities(doc)[i].id < entities(doc)[j].id)
    /\ [][/\ Len(entities(doc')) \in {Len(entities(doc)), Len(entities(doc)) + 1}
          /\ \A i \in 1..Len(entities(doc)) :
                /\ entities(doc')[i].id = entities(doc)[i].id
                /\ entities(doc')[i].entity.kind = entities(doc)[i].entity.kind]_vars

\* C19 witness: a BlockReference added first and a Line added second are yielded in that
\* order, with ids 0 and 1, after a block has been registered.
C19_Witness ==
    /\ Len(entities(doc)) = 2
    /\ entities(doc)[1].entity.kind = "BlockReference" /\ entities(doc)[1].id = 0
    /\ entities(doc)[2].entity.kind = "Line" /\ entities(doc)[2].id = 1
    /\ DOMAIN doc.blocks # {}

-----------------------------------------------------------------------------
(* The order of blocks().                                                  *)

\* The names of the BLOCK records of the file, in file order.
BlockRecordNames ==
    LET records == SelectSeq(file, IsBlockRecord)
    IN  [i \in 1..Len(records) |-> records[i].name]

\* C20: after a file whose BLOCK records have different names has been loaded, every
\* sequence blocks() can yield holds the definitions in the order of their BLOCK records.
C20_BlocksInFileOrder ==
    (/\ fpos = Len(file)
     /\ \A i, j \in 1..Len(BlockRecordNames) : i # j => BlockRecordNames[i] # BlockRecordNames[j])
        => \A yielded \in blocks(doc) :
                [i \in 1..Len(yielded) |-> yielded[i].name] = BlockRecordNames

-----------------------------------------------------------------------------
(* Bounds2D, Entity::bounds and Document::bounds.                           *)

\* f64::INFINITY: larger than every coordinate of the model.
INFINITY == 1000

Min2(a, b) == IF a < b THEN a ELSE b

Max2(a, b) == IF a > b THEN a ELSE b

\* Bounds2D::empty.
Bounds2D_empty == [min |-> <<INFINITY, INFINITY>>, max |-> <<-INFINITY, -INFINITY>>]

\* Bounds2D::is_empty.
is_empty(b) == b.min[1] > b.max[1] \/ b.min[2] > b.max[2]

\* Bounds2D::include_point.
include_point(b, point) ==
    IF is_empty(b)
    THEN [min |-> point, max |-> point]
    ELSE [min |-> <<Min2(b.min[1], point[1]), Min2(b.min[2], point[2])>>,
          max |-> <<Max2(b.max[1], point[1]), Max2(b.max[2], point[2])>>]

\* Bounds2D::include_bounds.
include_bounds(b, other) ==
    IF is_empty(other) THEN b
    ELSE include_point(include_point(b, other.min), other.max)

\* `for point in points { bounds.include_point(point) }`.
RECURSIVE include_points(_, _)
include_points(b, points) ==
    IF points = <<>> THEN b
    ELSE include_points(include_point(b, Head(points)), Tail(points))

\* Document::add_polyline: every vertex is its position (the bulge is 0).
add_polyline(d, vertices, is_closed, layer) ==
    push_entity(ensure_layer(d, layer),
                [kind |-> "Polyline", vertices |-> vertices, is_closed |-> is_closed,
                 layer |-> layer])

\* std::f64::consts::TAU in the unit of the pi_over_180 component of an angle. The angles
\* of the bounds computations are multiples of pi/2, given by their pi_over_180 component.
TAU == 360

\* f64::cos at a multiple of pi/2.
cos(angle) ==
    CASE angle % TAU = 0 -> 1
      [] angle % TAU = 90 -> 0
      [] angle % TAU = 180 -> -1
      [] angle % TAU = 270 -> 0

\* f64::sin at a multiple of pi/2.
sin(angle) ==
    CASE angle % TAU = 0 -> 0
      [] angle % TAU = 90 -> 1
      [] angle % TAU = 180 -> 0
      [] angle % TAU = 270 -> -1

\* f64::abs.
abs(x) == IF x < 0 THEN -x ELSE x

\* normalize_angle: the remainder of the division by TAU, made non-negative.
normalize_angle(angle) ==
    angle % TAU

\* canonical_interval.
canonical_interval(start_angle, end_angle) ==
    LET start == normalize_angle(start_angle)
        end == normalize_angle(end_angle)
    IN  IF end = start THEN <<start, start + TAU>>
        ELSE IF end < start THEN <<start, end + TAU>>
        ELSE <<start, end>>

\* arc_point.
arc_point(center, radius, angle) ==
    <<center[1] + radius * cos(angle), center[2] + radius * sin(angle)>>

RECURSIVE arc_quadrants(_, _, _, _, _, _)
\* The loop of arc_bounds over QUADRANTS from the k-th base on: the first turn of the base
\* that is no less than start is included when it is no more than end.
arc_quadrants(center, radius, start, end, k, bounds) ==
    IF k > 4 THEN bounds
    ELSE LET base == <<0, 90, 180, 270>>[k]
             candidate == IF base < start THEN base + TAU ELSE base
         IN  arc_quadrants(center, radius, start, end, k + 1,
                           IF candidate <= end
                           THEN include_point(bounds, arc_point(center, radius, candidate))
                           ELSE bounds)

\* arc_bounds.
arc_bounds(arc, bounds) ==
    LET radius == abs(arc.radius)
        interval == canonical_interval(arc.start_angle.pi_over_180,
                                       arc.end_angle.pi_over_180)
    IN  IF radius <= 0 THEN include_point(bounds, arc.center)
        ELSE arc_quadrants(arc.center, radius, interval[1], interval[2], 1,
                include_point(include_point(bounds,
                                            arc_point(arc.center, radius, interval[1])),
                              arc_point(arc.center, radius, interval[2])))

\* include_hatch_edge_bounds, for line edges, arc edges and straight polyline segments: the
\* Arc built from an arc edge takes its centre, radius and angles.
include_hatch_edge_bounds(edge, bounds) ==
    CASE edge.kind = "Line" -> include_point(include_point(bounds, edge.start), edge.end)
      [] edge.kind = "Arc" ->
            arc_bounds([center |-> edge.center, radius |-> edge.radius,
                        start_angle |-> edge.start_angle, end_angle |-> edge.end_angle,
                        layer |-> ""], bounds)
      [] edge.kind = "PolylineSegment" /\ edge.bulge = 0 ->
            include_point(include_point(bounds, edge.start), edge.end)

RECURSIVE include_hatch_edges(_, _)
\* `for edge in &loop_path.edges { include_hatch_edge_bounds(edge, &mut bounds) }`.
include_hatch_edges(edges, bounds) ==
    IF edges = <<>> THEN bounds
    ELSE include_hatch_edges(Tail(edges), include_hatch_edge_bounds(Head(edges), bounds))

RECURSIVE include_hatch_loops(_, _)
\* `for loop_path in &hatch.loops { ... }` of Entity::bounds.
include_hatch_loops(loops, bounds) ==
    IF loops = <<>> THEN bounds
    ELSE include_hatch_loops(Tail(loops), include_hatch_edges(Head(loops).edges, bounds))

\* Entity::bounds, for lines, arcs, polylines, hatches and 3D faces: None is <<>>, Some(b) is <<b>>.
Entity_bounds(e) ==
    LET b == CASE e.kind = "Line" ->
                    include_point(include_point(Bounds2D_empty, e.start), e.end)
               [] e.kind = "Arc" -> arc_bounds(e, Bounds2D_empty)
               [] e.kind = "Polyline" -> include_points(Bounds2D_empty, e.vertices)
               [] e.kind = "Hatch" -> include_hatch_loops(e.loops, Bounds2D_empty)
               [] e.kind = "Face3D" ->
                    include_points(Bounds2D_empty,
                                   [i \in 1..Len(e.vertices) |->
                                        <<e.vertices[i][1], e.vertices[i][2]>>])
    IN  IF is_empty(b) THEN <<>> ELSE <<b>>

\* The loop of Document::bounds over the entities from position i on.
RECURSIVE bounds_loop(_, _, _)
bounds_loop(d, i, acc) ==
    IF i > Len(d.entities) THEN acc
    ELSE LET eb == Entity_bounds(d.entities[i].entity)
         IN  bounds_loop(d, i + 1,
                         IF eb # <<>>
                         THEN [bounds |-> include_bounds(acc.bounds, eb[1]), has |-> TRUE]
                         ELSE acc)

\* Document::bounds without the `has` flag: the accumulated box is always returned.
Document_bounds_always_some(d) ==
    <<bounds_loop(d, 1, [bounds |-> Bounds2D_empty, has |-> FALSE]).bounds>>

\* Document::bounds.
Document_bounds(d) ==
    LET r == bounds_loop(d, 1, [bounds |-> Bounds2D_empty, has |-> FALSE])
    IN  IF r.has THEN <<r.bounds>> ELSE <<>>

\* The points a client places geometry at.
Points == {<<-1, 2>>, <<0, 0>>, <<2, -1>>, <<1, 1>>}

\* The vertex lists of a client's polylines; the empty one gives an entity without extent.
VertexLists == {<<>>} \cup {<<p>> : p \in Points}

\* SpecBounds: a client that adds lines and polylines anywhere.
AddLineAt ==
    /\ Len(doc.entities) < MaxEntities
    /\ \E start \in Points, end \in Points :
        Added(add_line(doc, start, end, "0"))

AddPolyline ==
    /\ Len(doc.entities) < MaxEntities
    /\ \E vertices \in VertexLists :
        Added(add_polyline(doc, vertices, FALSE, "0"))

NextBounds ==
    \/ AddLineAt
    \/ AddPolyline

SpecBounds == InitDoc /\ [][NextBounds]_vars

\* The boxes of the stored entities that have one.
EntityBoxes(d) ==
    {Entity_bounds(entities(d)[i].entity)[1] :
        i \in {j \in 1..Len(entities(d)) : Entity_bounds(entities(d)[j].entity) # <<>>}}

SetMin(S) == CHOOSE x \in S : \A y \in S : x <= y

SetMax(S) == CHOOSE x \in S : \A y \in S : x >= y

\* C21: bounds() is None exactly when no stored entity has bounds, and otherwise the box
\* whose corners are the component-wise minimum and maximum over the boxes of all stored
\* entities that have one (so never a box made up for a document without extent).
C21_BoundsIsUnionOrNone ==
    LET boxes == EntityBoxes(doc)
    IN  IF boxes = {}
        THEN Document_bounds(doc) = <<>>
        ELSE Document_bounds(doc) =
                <<[min |-> <<SetMin({b.min[1] : b \in boxes}), SetMin({b.min[2] : b \in boxes})>>,
                   max |-> <<SetMax({b.max[1] : b \in boxes}), SetMax({b.max[2] : b \in boxes})>>]>>

\* C21 witness: an entity without extent and a line are stored, and bounds() is the box of
\* the line.
C21_Witness ==
    /\ Len(entities(doc)) = 2
    /\ Entity_bounds(entities(doc)[1].entity) = <<>>
    /\ Entity_bounds(entities(doc)[2].entity) # <<>>
    /\ Document_bounds(doc) = <<[min |-> <<-1, -1>>, max |-> <<2, 2>>]>>

-----------------------------------------------------------------------------
(* Every layer name the document refers to.                                *)

\* The layers of the attributes an entity carries.
AttributeLayers(e) ==
    IF e.kind = "BlockReference"
    THEN {e.attributes[i].layer : i \in 1..Len(e.attributes)}
    ELSE {}

\* The layer names referenced by a block definition: of its entities, of its attribute
\* definitions and of the attributes of the block references it holds.
BlockLayers(definition) ==
    {layer_name(definition.entities[i]) : i \in 1..Len(definition.entities)}
        \cup {definition.attributes[i].layer : i \in 1..Len(definition.attributes)}
        \cup UNION {AttributeLayers(definition.entities[i]) : i \in 1..Len(definition.entities)}

\* The layer names referenced anywhere in the document.
ReferencedLayers(d) ==
    {layer_name(d.entities[i].entity) : i \in 1..Len(d.entities)}
        \cup UNION {AttributeLayers(d.entities[i].entity) : i \in 1..Len(d.entities)}
        \cup UNION {BlockLayers(d.blocks[n]) : n \in DOMAIN d.blocks}

\* C22: every layer name referenced anywhere in the document is a key of the layer table:
\* layers of stored entities, of their attributes, of the entities and attribute
\* definitions of registered blocks, and of the attributes of block references held by
\* block definitions.
C22_ReferencedLayersExist ==
    ReferencedLayers(doc) \subseteq DOMAIN doc.layers

-----------------------------------------------------------------------------
(* ensure_layer.                                                           *)

\* The names ensure_layer is called with: those of the clients and one no client uses.
EnsuredNames == LayerNames \cup {"L9"}

\* The keys of the layers that carry the given name.
LayersNamed(d, name) == {k \in DOMAIN d.layers : d.layers[k].name = name}

\* C23: called once or more, in any reachable state, ensure_layer(name) leaves exactly one
\* layer of that name, which is visible, and changes nothing else; and no operation of the
\* document alters or removes a layer that exists, so the calls may be interleaved with
\* any other operations.
C23_EnsureLayerIdempotent ==
    /\ [](\A name \in EnsuredNames :
            LET d1 == ensure_layer(doc, name)
                d2 == ensure_layer(d1, name)
            IN  /\ d2 = d1
                /\ Cardinality(LayersNamed(d1, name)) = 1
                /\ d1.layers[name].is_visible
                /\ DOMAIN d1.layers = DOMAIN doc.layers \cup {name}
                /\ \A k \in DOMAIN doc.layers : d1.layers[k] = doc.layers[k]
                /\ [d1 EXCEPT !.layers = doc.layers] = doc)
    /\ [][\A k \in DOMAIN doc.layers :
            k \in DOMAIN doc'.layers /\ doc'.layers[k] = doc.layers[k]]_vars

\* C23 witness: ensure_layer("L1") has run twice, for two stored entities, and layers of
\* other names were created besides.
C23_Witness ==
    /\ Len(doc.entities) = 2
    /\ \A i \in 1..2 : layer_name(doc.entities[i].entity) = "L1"
    /\ Cardinality(LayersNamed(doc, "L1")) = 1
    /\ {"0", "L2", "L3"} \subseteq DOMAIN doc.layers

-----------------------------------------------------------------------------
(* SpecMLeader: one MULTILEADER record of an ENTITIES section.             *)

\* The parser inside the ENTITIES section, about to read the tag of a record: the state
\* after the pairs 0/SECTION and 2/ENTITIES.
InEntities ==
    [stack |-> <<Frame("parse", "call_section", <<>>), Frame("parse_entities", "loop", <<>>)>>,
     reader |-> [lines |-> <<>>, buffer |-> <<>>, line_number |-> 4],
     doc |-> Document_new, status |-> "ok", result |-> "running", error |-> <<>>,
     raised |-> {}, saw_eof |-> FALSE]

\* The parser inside a BLOCK definition named B1 of the BLOCKS section, about to read the
\* tag of a record: the state after the pairs 0/SECTION, 2/BLOCKS, 0/BLOCK and 2/B1.
InBlock ==
    [stack |-> <<Frame("parse", "call_section", <<>>),
                 Frame("parse_blocks", "call_block_definition", <<>>),
                 Frame("parse_block_definition", "loop", [BlockLocals EXCEPT !.name = "B1"])>>,
     reader |-> [lines |-> <<>>, buffer |-> <<>>, line_number |-> 8],
     doc |-> Document_new, status |-> "ok", result |-> "running", error |-> <<>>,
     raised |-> {}, saw_eof |-> FALSE]

\* The variables hold the machine m after it has read one more pair.
InitMachine(m) ==
    /\ doc = m.doc
    /\ returned = <<>>
    /\ file = <<>>
    /\ fpos = 0
    /\ source = <<>>
    /\ reader = [m.reader EXCEPT !.line_number = @ + 2]
    /\ rcall = [op |-> "new"]
    /\ trail = <<>>
    /\ ret = [tag |-> "Unit"]
    /\ status = "ok"
    /\ stack = m.stack
    /\ result = "running"
    /\ error = <<>>
    /\ raised = m.raised
    /\ saw_eof = FALSE
    /\ exhausted = FALSE
    /\ SceneIdle

\* The variables hold the machine after parse_entities has read the tag `kind`.
InitRecord(kind) ==
    InitMachine(parse_entities(InEntities, OkSome(0, kind)))

\* The variables hold the machine after parse_block_definition has read the tag `kind`.
InitBlockRecord(kind) ==
    InitMachine(parse_block_definition(InBlock, OkSome(0, kind)))

\* What the text can hold at the reader's position, for a record made of the given pairs.
ChunksOf(alphabet) ==
    IF reader.buffer # <<>> \/ exhausted \/ reader.line_number >= MaxLines
    THEN {<<>>}
    ELSE alphabet \cup {<<"0">>, <<>>}

\* The pairs of a MULTILEADER record and the tag of the record after it.
MLeaderAlphabet ==
    {<<"0", "LINE">>, <<"10", "1">>, <<"20", "2">>, <<"344", "h1">>, <<"43", "2">>,
     <<"176", "1">>, <<"15", "1">>, <<"25", "1">>, <<"172", "1">>, <<"172", "2">>,
     <<"304", "E\r">>, <<"12", "1">>, <<"22", "x">>}

InitMLeader == InitRecord("MULTILEADER")

ParseMLeader ==
    /\ At("parse_mleader", "loop")
    /\ \E chunk \in ChunksOf(MLeaderAlphabet) :
        Commit(chunk, parse_mleader(Fed(chunk), Read(chunk).ret))

NextMLeader == ParseMLeader

SpecMLeader == InitMLeader /\ [][NextMLeader]_vars

\* A field that identifies block content was read: the block handle (the block scale can
\* only follow it), the block rotation, the block connection type or a coordinate of the
\* block location.
BlockFieldAppeared(l) ==
    \/ l.block_handle # None
    \/ l.block_rotation # <<>>
    \/ l.block_connection_type # <<>>
    \/ l.block_location_x # <<>>
    \/ l.block_location_y # <<>>

\* C24: the content of the MLeader that parse_mleader returns is Block when a
\* block-identifying field appeared in the record, otherwise MText when text fragments
\* were collected, otherwise None.
C24_ContentClassification ==
    [][(/\ stack # <<>>
        /\ stack[Len(stack)].fn = "parse_mleader"
        /\ Len(doc'.entities) = Len(doc.entities) + 1)
            => LET l == stack[Len(stack)].locals
                   content == doc'.entities[Len(doc'.entities)].entity.content
               IN  content.type = IF BlockFieldAppeared(l) THEN "Block"
                                  ELSE IF l.text_lines # <<>> THEN "MText"
                                  ELSE "None"]_vars

-----------------------------------------------------------------------------
(* SpecPolyline: one POLYLINE record of an ENTITIES section.               *)

\* The lines a POLYLINE record and its VERTEX records may take.
MaxPolylineLines == 38

\* The pairs of a POLYLINE sequence: the tags of its records and of a record after it,
\* a layer, flag words of header and vertices (70), rows and columns or face indices
\* (71, 72), coordinates, and a code line that is no integer.
PolylineAlphabet ==
    {<<"0", "VERTEX">>, <<"0", "SEQEND">>, <<"0", "ENDBLK">>, <<" 8 ", "L1">>,
     <<"70", "1">>, <<"70", "16">>, <<"70", "64">>, <<"70", "80">>, <<"70", "128">>,
     <<"70", "192">>, <<"71", "2">>, <<"72", "2">>, <<"10", "1">>, <<"20", "1">>,
     <<"A", "1">>}

PolylineChunks ==
    IF reader.buffer # <<>> \/ exhausted \/ reader.line_number >= MaxPolylineLines
    THEN {<<>>}
    ELSE PolylineAlphabet \cup {<<"0">>, <<>>}

\* The tag POLYLINE has been read, in the ENTITIES section or inside a BLOCK definition.
InitPolyline == InitRecord("POLYLINE") \/ InitBlockRecord("POLYLINE")

ParsePolylineEntity ==
    /\ At("parse_polyline_entity", "loop")
    /\ \E chunk \in PolylineChunks :
        Commit(chunk, parse_polyline_entity(Fed(chunk), Read(chunk).ret))

SkipPolylineSequence ==
    /\ At("skip_polyline_sequence", "loop")
    /\ \E chunk \in PolylineChunks :
        Commit(chunk, skip_polyline_sequence(Fed(chunk), Read(chunk).ret))

SkipVertexBody ==
    /\ At("skip_entity_body", "loop")
    /\ \E chunk \in PolylineChunks :
        Commit(chunk, skip_entity_body(Fed(chunk), Read(chunk).ret))

ParsePolyfaceMesh ==
    /\ At("parse_polyface_mesh", "loop")
    /\ \E chunk \in PolylineChunks :
        Commit(chunk, parse_polyface_mesh(Fed(chunk), Read(chunk).ret))

ParsePolyfaceVertexRecord ==
    /\ At("parse_polyface_vertex_record", "loop")
    /\ \E chunk \in PolylineChunks :
        Commit(chunk, parse_polyface_vertex_record(Fed(chunk), Read(chunk).ret))

ParsePolygonMesh ==
    /\ At("parse_polygon_mesh", "loop")
    /\ \E chunk \in PolylineChunks, overflow_checks \in BOOLEAN :
        Commit(chunk, parse_polygon_mesh(Fed(chunk), Read(chunk).ret, overflow_checks))

ParseMeshVertexRecord ==
    /\ At("parse_mesh_vertex_record", "loop")
    /\ \E chunk \in PolylineChunks :
        Commit(chunk, parse_mesh_vertex_record(Fed(chunk), Read(chunk).ret))

\* The records that follow inside the BLOCK definition, up to its ENDBLK.
ParseBlockRecord ==
    /\ At("parse_block_definition", "loop")
    /\ \E chunk \in PolylineChunks :
        Commit(chunk, parse_block_definition(Fed(chunk), Read(chunk).ret))

NextPolyline ==
    \/ ParsePolylineEntity
    \/ ParseBlockRecord
    \/ SkipPolylineSequence
    \/ SkipVertexBody
    \/ ParsePolyfaceMesh
    \/ ParsePolyfaceVertexRecord
    \/ ParsePolygonMesh
    \/ ParseMeshVertexRecord

SpecPolyline == InitPolyline /\ [][NextPolyline]_vars

\* The function the parse is running in ("" when it has ended).
TopFn(stk) == IF stk = <<>> THEN "" ELSE stk[Len(stk)].fn

\* The flag word of the POLYLINE header read so far: 0 when code 70 did not appear.
PolylineFlags(stk) ==
    LET l == stk[Len(stk)].locals
    IN  IF l.flags = <<>> THEN 0 ELSE l.flags[1]

\* The POLYLINE is being skipped as one of a mode that is not implemented.
SkippingPolyline(stk) ==
    \E i \in 1..Len(stk) : stk[i].fn = "skip_polyline_sequence"

\* The header of a POLYLINE leads to the polyface parser when bit 0x40 is set, to the
\* polygon-mesh parser when bit 0x10 is set and 0x40 is not, and to skipping otherwise;
\* and Face3D entities are stored by those two parsers only.
PolylineDispatch ==
    /\ (/\ TopFn(stack) = "parse_polyline_entity"
        /\ TopFn(stack') \notin {"parse_polyline_entity", ""})
            => TopFn(stack') = IF Bit(PolylineFlags(stack), 64) THEN "parse_polyface_mesh"
                               ELSE IF Bit(PolylineFlags(stack), 16) THEN "parse_polygon_mesh"
                               ELSE "skip_polyline_sequence"
    /\ Len(doc'.entities) > Len(doc.entities)
            => \E i \in 1..Len(stack) :
                    stack[i].fn \in {"parse_polyface_mesh", "parse_polygon_mesh"}

\* While a POLYLINE of another mode is skipped nothing is stored, and the skipping ends
\* in a failed load: with UnsupportedFeature, or with the error of the reader where the
\* records of the sequence cannot be read.
OtherFlagsFail ==
    SkippingPolyline(stack)
        => /\ doc' = doc
           /\ \/ SkippingPolyline(stack')
              \/ result' = "err" /\ error'[1].kind = "Unsupported"
              \/ result' = "err" /\ error'[1].kind = "Invalid" /\ "line" \in DOMAIN error'[1]

ReadingBlock(stk) ==
    \E i \in 1..Len(stk) : stk[i].fn = "parse_block_definition"

-----------------------------------------------------------------------------
(* SpecMesh: the faces of a polygon mesh whose vertices have been read.    *)

\* The largest number of rows and of columns of a mesh.
MaxMeshDim == 3

\* The i-th coordinate vertex of a mesh: every vertex is another point.
MeshVertex(i) == <<i, i, 0>>

\* parse_polygon_mesh in its loop, after the header of a POLYLINE on `layer` (flags with
\* bit 0x10, rows, columns) and n VERTEX records with coordinates have been read.
MeshMachine(layer, rows, cols, wrap_m, wrap_n, n) ==
    [InEntities EXCEPT
        !.stack = <<Frame("parse", "call_section", <<>>),
                    Frame("parse_entities", "call_polyline", <<>>),
                    Frame("parse_polyline_entity", "call_polygon_mesh",
                          [layer |-> layer,
                           flags |-> <<16 + (IF wrap_m THEN 1 ELSE 0) + (IF wrap_n THEN 2 ELSE 0)>>,
                           mesh_rows |-> <<rows>>, mesh_cols |-> <<cols>>]),
                    Frame("parse_polygon_mesh", "loop",
                          [layer |-> layer, rows |-> as_usize(rows), cols |-> as_usize(cols),
                           wrap_m |-> wrap_m, wrap_n |-> wrap_n,
                           vertices |-> [i \in 1..n |-> MeshVertex(i)]])>>,
        !.reader = [lines |-> <<>>, buffer |-> <<>>, line_number |-> 12 + 6 * n]]

\* Meshes of every size up to the bound, wrapped or not, with one vertex too few, with
\* exactly rows * cols vertices and with one more.
InitMesh ==
    \E layer \in {"0", "L1"}, rows \in 2..MaxMeshDim, cols \in 2..MaxMeshDim,
       wrap_m \in BOOLEAN, wrap_n \in BOOLEAN, extra \in {-1, 0, 1} :
        InitMachine(MeshMachine(layer, rows, cols, wrap_m, wrap_n, rows * cols + extra))

\* The sequence of VERTEX records ends, with SEQEND or with the tag of another record.
EndPolygonMesh ==
    /\ At("parse_polygon_mesh", "loop")
    /\ \E chunk \in {<<"0", "SEQEND">>, <<"0", "ENDBLK">>}, overflow_checks \in BOOLEAN :
        Commit(chunk, parse_polygon_mesh(Fed(chunk), Read(chunk).ret, overflow_checks))

NextMesh == EndPolygonMesh

SpecMesh == InitMesh /\ [][NextMesh]_vars

\* C26: a polygon mesh of R rows and C columns (R, C >= 2) with at least R * C coordinate
\* vertices yields exactly (R if wrapped in M, else R - 1) times (C if wrapped in N, else
\* C - 1) Face3D entities, row by row, the face at (row, col) built from the grid vertices
\* at (row, col), (row + 1 mod R, col), (row + 1 mod R, col + 1 mod C), (row, col + 1 mod C).
C26_MeshFaces ==
    [][(/\ TopFn(stack) = "parse_polygon_mesh"
        /\ stack[Len(stack)].locals.rows.high = 0
        /\ stack[Len(stack)].locals.cols.high = 0
        /\ stack[Len(stack)].locals.rows.low >= 2
        /\ stack[Len(stack)].locals.cols.low >= 2
        /\ Len(stack[Len(stack)].locals.vertices)
                >= stack[Len(stack)].locals.rows.low * stack[Len(stack)].locals.cols.low)
            => LET l == stack[Len(stack)].locals
                   R == l.rows.low
                   C == l.cols.low
                   RI == IF l.wrap_m THEN R ELSE R - 1
                   CI == IF l.wrap_n THEN C ELSE C - 1
                   at(row, col) == l.vertices[(row % R) * C + (col % C) + 1]
                   faces == doc'.entities
               IN  /\ result' = "running"
                   /\ TopFn(stack') = "parse_entities"
                   /\ Len(doc.entities) = 0
                   /\ Len(faces) = RI * CI
                   /\ \A row \in 0..(RI - 1), col \in 0..(CI - 1) :
                        LET face == faces[row * CI + col + 1].entity
                        IN  /\ face.kind = "Face3D"
                            /\ face.layer = l.layer
                            /\ face.vertices = <<at(row, col), at(row + 1, col),
                                                 at(row + 1, col + 1), at(row, col + 1)>>]_vars

\* C26 witness: a mesh of 2 rows and 3 columns wrapped both ways has given 6 faces, the
\* last of which joins the last vertex of the grid to the first.
C26_Witness ==
    /\ TopFn(stack) = "parse_entities"
    /\ Len(doc.entities) = 6
    /\ doc.entities[6].entity.kind = "Face3D"
    /\ doc.entities[6].entity.vertices =
            <<MeshVertex(6), MeshVertex(3), MeshVertex(1), MeshVertex(4)>>
    /\ doc.entities[1].entity.vertices =
            <<MeshVertex(1), MeshVertex(4), MeshVertex(5), MeshVertex(2)>>

-----------------------------------------------------------------------------
(* SpecHatchLoop: one HATCH record of polyline loops in an ENTITIES section. *)

\* The lines a HATCH record of polyline loops may take.
MaxHatchLines == 24

\* The pairs of a HATCH record with polyline loops (loop type 2), and the tag of the record
\* after it.
HatchLoopAlphabet ==
    {<<"0", "ENDSEC">>, <<"92", "2">>, <<"93", "2">>, <<"72", "1">>, <<"73", "1">>,
     <<"10", "1">>, <<"10", "2">>, <<"20", "1">>, <<"20", "2">>, <<"42", "2">>}

HatchLoopChunks ==
    IF reader.buffer # <<>> \/ exhausted \/ reader.line_number >= MaxHatchLines
    THEN {<<>>}
    ELSE HatchLoopAlphabet \cup {<<"0">>, <<>>}

InitHatchLoop == InitRecord("HATCH")

ParseHatchLoop ==
    /\ At("parse_hatch", "loop")
    /\ \E chunk \in HatchLoopChunks :
        Commit(chunk, parse_hatch(Fed(chunk), Read(chunk).ret))

NextHatchLoop == ParseHatchLoop

SpecHatchLoop == InitHatchLoop /\ [][NextHatchLoop]_vars

\* parse_hatch is running with a loop under construction.
BuildingLoop ==
    /\ stack # <<>>
    /\ stack[Len(stack)].fn = "parse_hatch"
    /\ stack[Len(stack)].locals.current_loop # <<>>

\* The finished loops after the step: those of the running parse_hatch, or those of the
\* Hatch it has returned and the document has stored.
FinishedLoops ==
    IF stack' # <<>> /\ stack'[Len(stack')].fn = "parse_hatch"
    THEN stack'[Len(stack')].locals.loops
    ELSE IF Len(doc'.entities) = Len(doc.entities) + 1
    THEN doc'.entities[Len(doc'.entities)].entity.loops
    ELSE <<>>

\* C27: when a polyline loop of n >= 2 vertices is finalized, its edges are the n-1
\* PolylineSegments that join consecutive vertices in input order, followed by one
\* closing segment from the last vertex to the first when the loop is closed.
C27_PolylineLoopEdges ==
    [][(/\ BuildingLoop
        /\ stack[Len(stack)].locals.current_loop[1].is_polyline
        /\ Len(stack[Len(stack)].locals.current_loop[1].poly_vertices) >= 2
        /\ Len(FinishedLoops) = Len(stack[Len(stack)].locals.loops) + 1)
            => LET loop == stack[Len(stack)].locals.current_loop[1]
                   v == loop.poly_vertices
                   n == Len(v)
                   edges == FinishedLoops[Len(FinishedLoops)].edges
               IN  /\ Len(edges) = IF loop.is_closed THEN n ELSE n - 1
                   /\ \A i \in 1..Len(edges) : edges[i].kind = "PolylineSegment"
                   /\ \A i \in 1..(n - 1) :
                        edges[i].start = v[i].point /\ edges[i].end = v[i + 1].point
                   /\ loop.is_closed =>
                        edges[n].start = v[n].point /\ edges[n].end = v[1].point]_vars

\* C27 witness: a stored Hatch holds a closed polyline loop of three vertices with three
\* edges, the last of which returns to the first vertex.
C27_Witness ==
    /\ Len(doc.entities) = 1
    /\ doc.entities[1].entity.kind = "Hatch"
    /\ \E i \in 1..Len(doc.entities[1].entity.loops) :
        LET loop == doc.entities[1].entity.loops[i]
        IN  /\ loop.is_polyline
            /\ loop.is_closed
            /\ Len(loop.edges) = 3
            /\ loop.edges[3].end = loop.edges[1].start
            /\ loop.edges[1].start # loop.edges[2].start
            /\ loop.edges[2].start # loop.edges[3].start

-----------------------------------------------------------------------------
(* SpecObjects: the DICTIONARY and IMAGEDEF_REACTOR records of an OBJECTS    *)
(* section.                                                                *)

\* The lines an OBJECTS section may take.
MaxObjectLines == 34

\* The parser inside the OBJECTS section, about to read the tag of a record: the state
\* after the pairs 0/SECTION and 2/OBJECTS.
InObjects ==
    [stack |-> <<Frame("parse", "call_section", <<>>),
                 Frame("parse_objects", "loop", ObjectsLocals)>>,
     reader |-> [lines |-> <<>>, buffer |-> <<>>, line_number |-> 4],
     doc |-> Document_new, status |-> "ok", result |-> "running", error |-> <<>>,
     raised |-> {}, saw_eof |-> FALSE]

\* The first tag of the section has been read: a DICTIONARY or an IMAGEDEF_REACTOR.
InitObjects ==
    \E tag \in {"DICTIONARY", "IMAGEDEF_REACTOR"} :
        InitMachine(parse_objects(InObjects, OkSome(0, tag)))

\* The tags of the records of the section and the tag that ends it.
ObjectTags ==
    {<<"0", "DICTIONARY">>, <<"0", "IMAGEDEF_REACTOR">>, <<"0", "ENDSEC">>}

\* The handles of the objects read so far. A handle names one object of a DXF text: the
\* text gives no object the handle of a DICTIONARY or IMAGEDEF_REACTOR before it.
UsedHandles ==
    DOMAIN doc.image_def_reactors
        \cup UNION {DOMAIN stack[i].locals.dictionaries :
                        i \in {j \in 1..Len(stack) : stack[j].fn = "parse_objects"}}

\* The entry names of the DICTIONARY record being read. A dictionary holds a name once:
\* the text repeats no entry name within a record.
UsedNames ==
    IF stack # <<>> /\ stack[Len(stack)].fn = "parse_dictionary"
    THEN {stack[Len(stack)].locals.entries[i].name :
            i \in 1..Len(stack[Len(stack)].locals.entries)}
    ELSE {}

\* What the text can hold at the reader's position inside the section.
ObjectChunks(alphabet) ==
    IF reader.buffer # <<>> \/ exhausted \/ reader.line_number >= MaxObjectLines
    THEN {<<>>}
    ELSE {chunk \in alphabet : /\ ~(chunk[1] = "5" /\ chunk[2] \in UsedHandles)
                               /\ ~(chunk[1] = "3" /\ chunk[2] \in UsedNames)}
            \cup {<<>>}

\* The pairs of a DICTIONARY record: its handle, the owner "0" of a root dictionary, entry
\* names and entry handles.
DictionaryAlphabet ==
    ObjectTags \cup
    {<<"5", "D1">>, <<"5", "D2">>, <<"330", "0">>, <<"3", "ACAD_IMAGE_DICT">>, <<"3", "A">>,
     <<"350", "D2">>, <<"350", "I1">>}

\* The pairs of an IMAGEDEF_REACTOR record: its handle and its owner.
ReactorAlphabet ==
    ObjectTags \cup {<<"5", "R1">>, <<"330", "I1">>}

ParseObjectRecord ==
    /\ At("parse_objects", "loop")
    /\ \E chunk \in ObjectChunks(ObjectTags) :
        Commit(chunk, parse_objects(Fed(chunk), Read(chunk).ret))

ParseDictionary ==
    /\ At("parse_dictionary", "loop")
    /\ \E chunk \in ObjectChunks(DictionaryAlphabet) :
        Commit(chunk, parse_dictionary(Fed(chunk), Read(chunk).ret))

ParseImageDefReactor ==
    /\ At("parse_image_def_reactor", "loop")
    /\ \E chunk \in ObjectChunks(ReactorAlphabet) :
        Commit(chunk, parse_image_def_reactor(Fed(chunk), Read(chunk).ret))

NextObjects ==
    \/ ParseObjectRecord
    \/ ParseDictionary
    \/ ParseImageDefReactor

SpecObjects == InitObjects /\ [][NextObjects]_vars

\* The dictionaries of the section that are owned by handle "0".
RootDictionaries(dictionaries) ==
    {h \in DOMAIN dictionaries : dictionaries[h].owner = "0"}

\* The positions of the entries named ACAD_IMAGE_DICT in a dictionary.
ImageDictEntries(dict) ==
    {i \in 1..Len(dict.entries) : dict.entries[i].name = "ACAD_IMAGE_DICT"}

\* The section holds one dictionary owned by handle "0", which holds one entry named
\* ACAD_IMAGE_DICT, and the handle of that entry is the handle of a dictionary of the
\* section.
NamesImageDictionary(dictionaries) ==
    /\ Cardinality(RootDictionaries(dictionaries)) = 1
    /\ \A h \in RootDictionaries(dictionaries) :
        /\ Cardinality(ImageDictEntries(dictionaries[h])) = 1
        /\ \A i \in ImageDictEntries(dictionaries[h]) :
            dictionaries[h].entries[i].handle \in DOMAIN dictionaries

\* The handle the ACAD_IMAGE_DICT entry of the dictionary owned by "0" names.
NamedImageDictionary(dictionaries) ==
    LET root == dictionaries[CHOOSE h \in RootDictionaries(dictionaries) : TRUE]
    IN  root.entries[CHOOSE i \in ImageDictEntries(root) : TRUE].handle

\* C28: when parse_objects returns and the ACAD_IMAGE_DICT entry of the dictionary owned by
\* handle "0" names a dictionary of the section, the Document's image dictionary is that
\* dictionary, its entries are the dictionary's entries in ascending name order, and each
\* entry's reactor link is the handle of an IMAGEDEF_REACTOR owned by the entry's image
\* definition, or absent when no reactor is owned by it.
C28_ImageDictionary ==
    [][(/\ stack # <<>>
        /\ stack[Len(stack)].fn = "parse_objects"
        /\ result' = "running"
        /\ Len(stack') = Len(stack) - 1
        /\ NamesImageDictionary(stack[Len(stack)].locals.dictionaries))
            => LET dictionaries == stack[Len(stack)].locals.dictionaries
                   named == dictionaries[NamedImageDictionary(dictionaries)]
                   reactors == doc'.image_def_reactors
               IN  /\ doc'.image_dictionary # <<>>
                   /\ LET image == doc'.image_dictionary[1]
                          n == Len(image.entries)
                      IN  /\ image.handle = named.handle
                          /\ n = Len(named.entries)
                          /\ \A e \in {named.entries[i] : i \in 1..n} :
                                Cardinality({i \in 1..n :
                                    /\ image.entries[i].name = e.name
                                    /\ image.entries[i].image_def_handle = e.handle})
                                = Cardinality({i \in 1..n : named.entries[i] = e})
                          /\ \A i \in 1..n, j \in 1..n :
                                i < j => NameRank[image.entries[i].name]
                                            <= NameRank[image.entries[j].name]
                          /\ \A i \in 1..n :
                                LET owned == {h \in DOMAIN reactors :
                                                reactors[h].owner_handle
                                                    = image.entries[i].image_def_handle}
                                IN  IF owned = {}
                                    THEN image.entries[i].reactor_handle = None
                                    ELSE image.entries[i].reactor_handle \in owned]_vars

\* C28 witness: the image dictionary of the Document holds two entries in ascending name
\* order, one linked to a reactor and one without a link, and it is not the dictionary
\* owned by "0".
C28_Witness ==
    /\ doc.image_dictionary # <<>>
    /\ stack # <<>>
    /\ stack[Len(stack)].fn = "parse"
    /\ LET image == doc.image_dictionary[1]
       IN  /\ image.handle = "D2"
           /\ Len(image.entries) = 2
           /\ image.entries[1].name = "A"
           /\ image.entries[2].name = "ACAD_IMAGE_DICT"
           /\ image.entries[1].reactor_handle \in DOMAIN doc.image_def_reactors
           /\ image.entries[2].reactor_handle = None

-----------------------------------------------------------------------------
(* SpecAngles: one ARC, HATCH or MULTILEADER record of an ENTITIES section *)
(* whose pairs give angles.                                                *)

\* The lines a record with angles may take.
MaxAngleLines == 24

AngleChunks(alphabet) ==
    IF reader.buffer # <<>> \/ exhausted \/ reader.line_number >= MaxAngleLines
    THEN {<<>>}
    ELSE alphabet \cup {<<>>}

\* The pairs of an ARC record: centre, radius, start and end angle.
ArcAlphabet ==
    {<<"0", "ENDSEC">>, <<"10", "1">>, <<"20", "1">>, <<"40", "1">>, <<"50", "1">>,
     <<"50", "2">>, <<"51", "2">>, <<"51", "x">>}

\* The pairs of a HATCH record with a loop of arc and ellipse edges (loop type 1, edge types
\* 2 and 3) and a gradient: centre, major axis, radius or ratio, angles, gradient switch and
\* gradient angle.
HatchAngleAlphabet ==
    {<<"0", "ENDSEC">>, <<"92", "1">>, <<"72", "2">>, <<"72", "3">>, <<"10", "1">>,
     <<"11", "1">>, <<"40", "1">>, <<"50", "1">>, <<"51", "2">>, <<"450", "1">>,
     <<"452", "2">>}

\* The pairs of a MULTILEADER record with block content: a leader vertex, the block handle
\* and the block rotation.
MLeaderAngleAlphabet ==
    {<<"0", "ENDSEC">>, <<"10", "1">>, <<"20", "2">>, <<"344", "h1">>, <<"43", "2">>,
     <<"43", "1">>}

InitAngles ==
    \E kind \in {"ARC", "HATCH", "MULTILEADER"} : InitRecord(kind)

ParseArc ==
    /\ At("parse_arc", "loop")
    /\ \E chunk \in AngleChunks(ArcAlphabet) :
        Commit(chunk, parse_arc(Fed(chunk), Read(chunk).ret))

ParseHatchAngles ==
    /\ At("parse_hatch", "loop")
    /\ \E chunk \in AngleChunks(HatchAngleAlphabet) :
        Commit(chunk, parse_hatch(Fed(chunk), Read(chunk).ret))

ParseMLeaderAngles ==
    /\ At("parse_mleader", "loop")
    /\ \E chunk \in AngleChunks(MLeaderAngleAlphabet) :
        Commit(chunk, parse_mleader(Fed(chunk), Read(chunk).ret))

NextAngles ==
    \/ ParseArc
    \/ ParseHatchAngles
    \/ ParseMLeaderAngles

SpecAngles == InitAngles /\ [][NextAngles]_vars

\* The numbers of degrees the pairs of the alphabets give, and 0, the default of an angle.
DegreesRead == {0, 1, 2}

\* The angles of the arc and ellipse edges of a Hatch.
HatchEdgeAngles(hatch) ==
    UNION {UNION {IF hatch.loops[i].edges[j].kind \in {"Arc", "Ellipse"}
                  THEN {hatch.loops[i].edges[j].start_angle, hatch.loops[i].edges[j].end_angle}
                  ELSE {} : j \in 1..Len(hatch.loops[i].edges)} : i \in 1..Len(hatch.loops)}

\* The angles an entity stores.
StoredAngles(entity) ==
    CASE entity.kind = "Arc" -> {entity.start_angle, entity.end_angle}
      [] entity.kind = "Hatch" ->
            HatchEdgeAngles(entity)
                \cup IF entity.gradient = <<>> THEN {} ELSE {entity.gradient[1].angle}
      [] entity.kind = "MLeader" ->
            IF entity.content.type = "Block" THEN {entity.content.block.rotation} ELSE {}
      [] entity.kind \notin {"Arc", "Hatch", "MLeader"} -> {}

\* C29: every angle a stored entity holds is the radians of a number of degrees that the
\* input gave: ARC angles, HATCH arc and ellipse edge angles, the HATCH gradient angle and
\* the MULTILEADER block rotation.
C29_AnglesInRadians ==
    \A i \in 1..Len(doc.entities) :
        StoredAngles(doc.entities[i].entity) \subseteq {to_radians(x) : x \in DegreesRead}

-----------------------------------------------------------------------------
(* SpecArcBounds: a client that adds arcs and hatches bounded by one arc.  *)

\* The largest number of arcs and hatches of the client.
MaxArcs == 1

\* The centres, the radii and the angles (multiples of pi/2) of the client's arcs.
ArcCenters == {<<0, 0>>, <<1, -1>>}

ArcRadii == {-1, 0, 2}

ArcAngles == {to_radians(d) : d \in {0, 90, 180, 270}}

AddArc ==
    /\ Len(doc.entities) < MaxArcs
    /\ \E center \in ArcCenters, radius \in ArcRadii, start \in ArcAngles, end \in ArcAngles :
        Added(add_arc(doc, center, radius, start, end, "0"))

AddHatchArcEdge ==
    /\ Len(doc.entities) < MaxArcs
    /\ \E center \in ArcCenters, radius \in ArcRadii, start \in ArcAngles, end \in ArcAngles,
          ccw \in BOOLEAN :
        Added(add_hatch(doc, "SOLID", FALSE,
                        <<[is_polyline |-> FALSE, is_closed |-> FALSE,
                           boundary_handles |-> <<>>,
                           edges |-> <<[kind |-> "Arc", center |-> center, radius |-> radius,
                                        start_angle |-> start, end_angle |-> end,
                                        is_counter_clockwise |-> ccw]>>]>>,
                        <<>>, "0"))

NextArcBounds ==
    \/ AddArc
    \/ AddHatchArcEdge

SpecArcBounds == InitDoc /\ [][NextArcBounds]_vars

\* The multiples of pi/2 in [0, TAU) that the curve passes from the angle start to the
\* angle end, counter-clockwise or clockwise; equal ends make the full turn.
SweptQuadrants(start, end, ccw) ==
    LET turn == IF ccw THEN (end - start) % TAU ELSE (start - end) % TAU
        quarters == IF turn = 0 THEN 4 ELSE turn \div 90
    IN  {(IF ccw THEN start + 90 * j ELSE start - 90 * j) % TAU : j \in 0..quarters}

\* The exact bounding box of the arc swept about center with the radius: both ends of the
\* arc are multiples of pi/2, so the curve between two neighbouring points of the set is
\* monotone in x and in y and the box of the curve is the box of the points.
SweptBox(center, radius, start, end, ccw) ==
    LET r == IF radius < 0 THEN -radius ELSE radius
        points == {<<center[1] + r * cos(a), center[2] + r * sin(a)>> :
                        a \in SweptQuadrants(start, end, ccw)}
    IN  [min |-> <<SetMin({p[1] : p \in points}), SetMin({p[2] : p \in points})>>,
         max |-> <<SetMax({p[1] : p \in points}), SetMax({p[2] : p \in points})>>]

\* C30: the bounds of an arc entity and of a hatch bounded by an arc edge are the exact
\* bounding box of the swept curve, where the sweep of a hatch edge goes in the direction of
\* its counter-clockwise flag (an arc entity is counter-clockwise).
C30_ArcBoundsExact ==
    \A i \in 1..Len(doc.entities) :
        LET e == doc.entities[i].entity
        IN  /\ e.kind = "Arc" =>
                Entity_bounds(e) = <<SweptBox(e.center, e.radius, e.start_angle.pi_over_180,
                                              e.end_angle.pi_over_180, TRUE)>>
            /\ e.kind = "Hatch" =>
                LET edge == e.loops[1].edges[1]
                IN  Entity_bounds(e) =
                        <<SweptBox(edge.center, edge.radius, edge.start_angle.pi_over_180,
                                   edge.end_angle.pi_over_180, edge.is_counter_clockwise)>>

-----------------------------------------------------------------------------
(* SpecSequence: the records that end a POLYLINE or INSERT sequence, and   *)
(* the pair the ENTITIES loop reads after the sub-parser has returned.     *)

\* The lines a sequence and the pair after it may take.
MaxSequenceLines == 18

\* The pairs of a POLYLINE or INSERT sequence: the tags of its records and of the end of
\* the section, a layer, the polyface flag of the header, the block name and the
\* insertion point.
SequenceAlphabet ==
    {<<"0", "VERTEX">>, <<"0", "SEQEND">>, <<"0", "ENDSEC">>, <<" 8 ", "L1">>,
     <<"70", "64">>, <<"2", "B1">>, <<"10", "1">>, <<"20", "1">>}

SequenceChunks ==
    IF reader.buffer # <<>> \/ exhausted \/ reader.line_number >= MaxSequenceLines
    THEN {<<>>}
    ELSE SequenceAlphabet \cup {<<>>}

\* The tag POLYLINE or INSERT has been read by the ENTITIES loop.
InitSequence == InitRecord("POLYLINE") \/ InitRecord("INSERT")

SeqParsePolylineEntity ==
    /\ At("parse_polyline_entity", "loop")
    /\ \E chunk \in SequenceChunks :
        Commit(chunk, parse_polyline_entity(Fed(chunk), Read(chunk).ret))

SeqSkipPolylineSequence ==
    /\ At("skip_polyline_sequence", "loop")
    /\ \E chunk \in SequenceChunks :
        Commit(chunk, skip_polyline_sequence(Fed(chunk), Read(chunk).ret))

SeqParsePolyfaceMesh ==
    /\ At("parse_polyface_mesh", "loop")
    /\ \E chunk \in SequenceChunks :
        Commit(chunk, parse_polyface_mesh(Fed(chunk), Read(chunk).ret))

SeqParsePolyfaceVertexRecord ==
    /\ At("parse_polyface_vertex_record", "loop")
    /\ \E chunk \in SequenceChunks :
        Commit(chunk, parse_polyface_vertex_record(Fed(chunk), Read(chunk).ret))

SeqParseInsert ==
    /\ At("parse_insert", "loop")
    /\ \E chunk \in SequenceChunks :
        Commit(chunk, parse_insert(Fed(chunk), Read(chunk).ret))

SeqParseInsertAttributes ==
    /\ At("parse_insert", "attributes")
    /\ \E chunk \in SequenceChunks :
        Commit(chunk, parse_insert_attributes(Fed(chunk), Read(chunk).ret))

SeqSkipEntityBody ==
    /\ At("skip_entity_body", "loop")
    /\ \E chunk \in SequenceChunks :
        Commit(chunk, skip_entity_body(Fed(chunk), Read(chunk).ret))

\* The ENTITIES loop after a sub-parser has returned Ok: the next pair.
SeqParseEntities ==
    /\ At("parse_entities", "loop")
    /\ \E chunk \in SequenceChunks :
        Commit(chunk, parse_entities(Fed(chunk), Read(chunk).ret))

NextSequence ==
    \/ SeqParsePolylineEntity
    \/ SeqSkipPolylineSequence
    \/ SeqParsePolyfaceMesh
    \/ SeqParsePolyfaceVertexRecord
    \/ SeqParseInsert
    \/ SeqParseInsertAttributes
    \/ SeqSkipEntityBody
    \/ SeqParseEntities

SpecSequence == InitSequence /\ [][NextSequence]_vars

\* The ENTITIES loop has been handed a pair that is no group-0 pair.
FieldPairInLoop(err) ==
    /\ err # <<>>
    /\ err[1].kind = "Invalid"
    /\ err[1].message = "ENTITIES section met a group code, expected 0"

\* C31: when a record sub-parser called from the ENTITIES loop has returned Ok (every
\* arrival at the loop, the parse starting inside a POLYLINE or INSERT record), the next
\* pair the loop reads is a group-0 pair or the end of the input: the loop never fails
\* on the group code of a field pair.
C31_NextPairIsGroupZero ==
    [][At("parse_entities", "loop") => ~FieldPairInLoop(error')]_vars

\* C32: no execution of the parser calls put_back while a pair is held in the lookahead
\* slot: put_back never panics, every pushback follows a next_pair that emptied the slot.
C32_NoDoublePushback ==
    status # "panicked"

\* C32 witness: an INSERT has been parsed with two pushbacks, the tag after its fields
\* pushed back by the first loop, read again by the attribute loop and pushed back once
\* more (or the tag after SEQEND pushed back by skip_entity_body); the pair is held for
\* the ENTITIES loop.
C32_Witness ==
    /\ At("parse_entities", "loop")
    /\ reader.buffer # <<>>
    /\ Len(doc.entities) = 1
    /\ doc.entities[1].entity.kind = "BlockReference"

-----------------------------------------------------------------------------
(* The grammar of the top level.                                           *)

\* C33: wherever parse is at top level, a pair 0/SECTION leads to the section's name, a
\* pair 0/EOF ends the parse, and every other pair fails it with InvalidDocument; wherever
\* parse has just read SECTION, a pair of group 2 enters a section and every other pair,
\* or the end of the input, fails the parse with InvalidDocument.
C33_TopLevelGrammar ==
    /\ (At("parse", "loop") /\ reader.buffer = <<>>) =>
        \A chunk \in PairAlphabet :
            LET r == Read(chunk).ret
                m == parse(Fed(chunk), r)
            IN  IF r.tag = "Some" /\ r.pair.code = 0 /\ r.pair.value = "SECTION"
                THEN m.result = "running" /\ Top(m).fn = "parse" /\ Top(m).at = "section_name"
                ELSE IF r.tag = "Some" /\ r.pair.code = 0 /\ r.pair.value = "EOF"
                THEN m.result = "ok"
                ELSE /\ m.result = "err"
                     /\ m.error[1].kind = "Invalid"
                     /\ DxfFacade_load_error(m.error[1]) = "InvalidDocument"
    /\ (At("parse", "section_name") /\ reader.buffer = <<>>) =>
        \A chunk \in PairAlphabet \cup {<<>>} :
            LET r == Read(chunk).ret
                m == parse_section_name(Fed(chunk), r)
            IN  IF r.tag = "Some" /\ r.pair.code = 2
                THEN /\ m.result = "running"
                     /\ Len(m.stack) = 2
                     /\ Top(m).fn \in {"parse_entities", "parse_blocks", "parse_objects",
                                       "skip_section"}
                ELSE /\ m.result = "err"
                     /\ m.error[1].kind = "Invalid"
                     /\ DxfFacade_load_error(m.error[1]) = "InvalidDocument"

\* C33 witness: after a first section had ended, a second SECTION record was followed by
\* a pair of another group than 2 and the parse failed on it.
C33_Witness ==
    /\ result = "err"
    /\ error[1].message = "SECTION name with another group code, expected 2"
    /\ reader.line_number >= 10

-----------------------------------------------------------------------------
(* SpecLeaderSection: parse_mleader over the text of a MULTILEADER record  *)
(* with LEADER{ and LEADER_LINE{ subsections.                              *)

\* The pairs of the text of a MULTILEADER record.
MaxLeaderPairs == 4

\* The pairs of the record: the markers that open and close the LEADER and LEADER_LINE
\* subsections under the group codes DXF writes them with, and group 40 with two values.
LeaderAlphabet ==
    {<<"302", "LEADER{">>, <<"304", "LEADER_LINE{">>, <<"305", "}">>, <<"303", "}">>,
     <<"40", "1">>, <<"40", "2">>}

\* The lines of a sequence of pairs.
LinesOf(pairs) ==
    [i \in 1..(2 * Len(pairs)) |-> pairs[(i + 1) \div 2][IF i % 2 = 1 THEN 1 ELSE 2]]

\* The texts a record is drawn from.
LeaderTexts ==
    {LinesOf(pairs) : pairs \in UNION {[1..k -> LeaderAlphabet] : k \in 0..MaxLeaderPairs}}

\* The tag MULTILEADER has been read by the ENTITIES loop; the text of the record follows.
InitLeaderSection ==
    /\ doc = Document_new
    /\ returned = <<>>
    /\ file = <<>>
    /\ fpos = 0
    /\ source \in LeaderTexts
    /\ reader = [lines |-> source, buffer |-> <<>>, line_number |-> 6]
    /\ rcall = [op |-> "new"]
    /\ trail = <<>>
    /\ ret = [tag |-> "Unit"]
    /\ status = "ok"
    /\ stack = parse_entities(InEntities, OkSome(0, "MULTILEADER")).stack
    /\ result = "running"
    /\ error = <<>>
    /\ raised = {}
    /\ saw_eof = FALSE
    /\ exhausted = FALSE
    /\ SceneIdle

\* One turn of the loop of parse_mleader: the next pair of the text.
ParseLeaderSection ==
    /\ At("parse_mleader", "loop")
    /\ LET read == next_pair(reader)
       IN  Commit(reader.lines, parse_mleader([Machine EXCEPT !.reader = read.reader], read.ret))

NextLeaderSection == ParseLeaderSection

SpecLeaderSection == InitLeaderSection /\ [][NextLeaderSection]_vars

\* The pairs of the text read so far.
PairsRead ==
    [i \in 1..((Len(source) - Len(reader.lines)) \div 2) |-> <<source[2 * i - 1], source[2 * i]>>]

RECURSIVE OpenSections(_, _)
\* The subsections open after the first k of the pairs, the innermost last: a marker
\* "LEADER{" or "LEADER_LINE{" opens one, a marker "}" closes the innermost.
OpenSections(pairs, k) ==
    IF k = 0 THEN <<>>
    ELSE LET open == OpenSections(pairs, k - 1)
             value == pairs[k][2]
         IN  IF value \in {"LEADER{", "LEADER_LINE{"} THEN Append(open, value)
             ELSE IF value = "}" /\ open # <<>> THEN SubSeq(open, 1, Len(open) - 1)
             ELSE open

\* The pairs end inside an open LEADER{ subsection.
InsideLeader(pairs) ==
    LET open == OpenSections(pairs, Len(pairs))
    IN  \E i \in 1..Len(open) : open[i] = "LEADER{"

\* C34: a group-40 value of a MULTILEADER record is stored as the dogleg length exactly when
\* it occurs inside an open LEADER{ ... } subsection (also after a LEADER_LINE{ ... } nested
\* in it has closed), and as the overall scale otherwise.
C34_DoglegInsideLeader ==
    [][(/\ At("parse_mleader", "loop")
        /\ Len(reader.lines) >= 2
        /\ reader.lines[1] = "40")
            => LET l == stack[Len(stack)].locals
                   after == stack'[Len(stack)].locals
                   x == ParseF64[reader.lines[2]]
               IN  IF InsideLeader(PairsRead)
                   THEN after.dogleg_length = <<x>> /\ after.scale = l.scale
                   ELSE after.scale = <<x>> /\ after.dogleg_length = l.dogleg_length]_vars

-----------------------------------------------------------------------------
(* The face records of a polyface mesh.                                    *)

\* The absolute value of a face index.
IndexAbs(index) == IF index < 0 THEN -index ELSE index

RECURSIVE SelectedVertex(_, _, _)
\* The coordinate slot `slot` of a face stands for: the one its index selects, and for
\* index 0 the one the nearest nonzero index before it selects (the first coordinate
\* where there is none before).
SelectedVertex(coordinates, indices, slot) ==
    IF slot = 0 THEN coordinates[1]
    ELSE IF indices[slot] = 0 THEN SelectedVertex(coordinates, indices, slot - 1)
    ELSE coordinates[IndexAbs(indices[slot])]

\* C35: every face record of a polyface mesh either stores a Face3D whose four slots hold
\* the coordinates its indices select, or, an index having no coordinate among those read
\* so far, fails the parse with InvalidDocument: the record is never dropped. (The step
\* is the one that ends the face record: it reads the group-0 pair after it and pushes
\* it back.)
C35_FaceRecordStoredOrFails ==
    [][(/\ At("parse_polyface_vertex_record", "loop")
        /\ Bit(stack[Len(stack)].locals.flags, 128)
        /\ ~Bit(stack[Len(stack)].locals.flags, 64)
        /\ reader'.buffer # <<>>)
            => LET indices == stack[Len(stack)].locals.indices
                   coordinates == stack[Len(stack) - 1].locals.coordinates
                   matched == \A slot \in 1..4 : IndexAbs(indices[slot]) <= Len(coordinates)
               IN  IF matched /\ coordinates # <<>>
                   THEN /\ result' = "running"
                        /\ Len(doc'.entities) = Len(doc.entities) + 1
                        /\ LET face == doc'.entities[Len(doc'.entities)].entity
                           IN  /\ face.kind = "Face3D"
                               /\ \A slot \in 1..4 :
                                    face.vertices[slot] =
                                        SelectedVertex(coordinates, indices, slot)
                   ELSE /\ result' = "err"
                        /\ DxfFacade_load_error(error'[1]) = "InvalidDocument"]_vars

-----------------------------------------------------------------------------
(* SpecRasterClip: the clip boundary of IMAGE and WIPEOUT records.         *)

\* The lines an IMAGE or WIPEOUT record may take.
MaxRasterLines == 20

\* The pairs of an IMAGE or WIPEOUT record: the tag of the record after it, the handle of
\* the IMAGEDEF, the clip switch, the clip type under its two group codes, the number of
\* clip vertices, and the coordinates of clip vertices.
RasterAlphabet ==
    {<<"0", "ENDSEC">>, <<"340", "h1">>, <<"71", "1">>, <<"72", "1">>, <<"72", "2">>,
     <<"90", "2">>, <<"91", "3">>, <<"14", "1">>, <<"24", "1">>, <<"24", "2">>}

RasterChunks ==
    IF reader.buffer # <<>> \/ exhausted \/ reader.line_number >= MaxRasterLines
    THEN {<<>>}
    ELSE RasterAlphabet \cup {<<>>}

\* The tag IMAGE or WIPEOUT has been read by the ENTITIES loop.
InitRasterClip == InitRecord("IMAGE") \/ InitRecord("WIPEOUT")

ParseImage ==
    /\ At("parse_image", "loop")
    /\ \E chunk \in RasterChunks : Commit(chunk, parse_image(Fed(chunk), Read(chunk).ret))

ParseWipeout ==
    /\ At("parse_wipeout", "loop")
    /\ \E chunk \in RasterChunks : Commit(chunk, parse_wipeout(Fed(chunk), Read(chunk).ret))

NextRasterClip ==
    \/ ParseImage
    \/ ParseWipeout

SpecRasterClip == InitRasterClip /\ [][NextRasterClip]_vars

\* C36: when an IMAGE or WIPEOUT record carries an explicit clip-boundary-type code, that
\* code alone decides the kind of the clip stored: with type 1 the clip is no polygon, with
\* type 2 it is no rectangle, however many clip vertices the record has or announces.
C36_ExplicitClipTypeDecides ==
    [][(/\ stack # <<>>
        /\ stack[Len(stack)].fn \in {"parse_image", "parse_wipeout"}
        /\ Len(doc'.entities) = Len(doc.entities) + 1
        /\ stack[Len(stack)].locals.clip_boundary_type # <<>>)
            => LET explicit == stack[Len(stack)].locals.clip_boundary_type[1]
                   clip == doc'.entities[Len(doc'.entities)].entity.clip
               IN  clip # <<>> =>
                        clip[1].type = IF explicit = 2 THEN "Polygon" ELSE "Rectangle"]_vars

-----------------------------------------------------------------------------
(* The resolved block name of a stored MLeader.                            *)

\* The entity is an MLeader with block content.
HasBlockContent(entity) ==
    entity.kind = "MLeader" /\ entity.content.type = "Block"

\* C37: once the block content of a stored MLeader has a block name, every operation
\* leaves that name as it is, also one that registers the content's handle for another
\* block name.
C37_ResolvedNameKept ==
    [][\A i \in 1..Len(doc.entities) :
        (/\ HasBlockContent(doc.entities[i].entity)
         /\ doc.entities[i].entity.content.block.block_name # None)
            => /\ i <= Len(doc'.entities)
               /\ HasBlockContent(doc'.entities[i].entity)
               /\ doc'.entities[i].entity.content.block.block_name =
                    doc.entities[i].entity.content.block.block_name]_vars

\* C37 witness: an MLeader stored without a name got the name B1 through its handle h2,
\* and keeps it where h2 has since been registered for B2.
C37_Witness ==
    /\ Len(doc.entities) >= 1
    /\ HasBlockContent(doc.entities[1].entity)
    /\ doc.entities[1].entity.content.block = [block_handle |-> "h2", block_name |-> "B1"]
    /\ "h2" \in DOMAIN doc.block_handles
    /\ doc.block_handles["h2"] = "B2"

\* ---------------------------------------------------------------------------------------
\* The row and column counts of a polygon mesh.
\* ---------------------------------------------------------------------------------------

MaxCountLines == 20

\* The pairs of a polygon-mesh POLYLINE: the mesh flag, row and column counts that are
\* negative, below 2 and 2, a VERTEX with its coordinates, the end of the sequence.
CountAlphabet ==
    {<<"70", "16">>, <<"71", "-1">>, <<"71", "0">>, <<"71", "2">>,
     <<"72", "-1">>, <<"72", "-2">>, <<"72", "1">>, <<"72", "2">>,
     <<"0", "VERTEX">>, <<"10", "1">>, <<"20", "1">>, <<"0", "SEQEND">>}

CountChunks ==
    IF reader.buffer # <<>> \/ exhausted \/ reader.line_number >= MaxCountLines
    THEN {<<>>}
    ELSE CountAlphabet \cup {<<>>}

\* The tag POLYLINE has been read by the ENTITIES loop.
InitCounts == InitRecord("POLYLINE")

CountParsePolylineEntity ==
    /\ At("parse_polyline_entity", "loop")
    /\ \E chunk \in CountChunks :
        Commit(chunk, parse_polyline_entity(Fed(chunk), Read(chunk).ret))

CountParsePolygonMesh ==
    /\ At("parse_polygon_mesh", "loop")
    /\ \E chunk \in CountChunks, overflow_checks \in BOOLEAN :
        Commit(chunk, parse_polygon_mesh(Fed(chunk), Read(chunk).ret, overflow_checks))

CountParseMeshVertexRecord ==
    /\ At("parse_mesh_vertex_record", "loop")
    /\ \E chunk \in CountChunks :
        Commit(chunk, parse_mesh_vertex_record(Fed(chunk), Read(chunk).ret))

NextCounts ==
    \/ CountParsePolylineEntity
    \/ CountParsePolygonMesh
    \/ CountParseMeshVertexRecord

SpecCounts == InitCounts /\ [][NextCounts]_vars

\* C38: when the header of a polygon-mesh POLYLINE (flag 16 without 64, both counts
\* given) ends with a row count or a column count below 2 (zero and negative counts
\* included), the parse fails at once with an error that load reports as InvalidDocument,
\* and no step of the parse of a polygon mesh panics (rows * cols does not overflow, no
\* vertex is indexed beyond the vertices).
C38_LowCountsRejected ==
    [][/\ (/\ At("parse_polyline_entity", "loop")
           /\ reader'.buffer # <<>>
           /\ stack[Len(stack)].locals.flags # <<>>
           /\ Bit(stack[Len(stack)].locals.flags[1], 16)
           /\ ~Bit(stack[Len(stack)].locals.flags[1], 64)
           /\ stack[Len(stack)].locals.mesh_rows # <<>>
           /\ stack[Len(stack)].locals.mesh_cols # <<>>
           /\ \/ stack[Len(stack)].locals.mesh_rows[1] < 2
              \/ stack[Len(stack)].locals.mesh_cols[1] < 2)
            => /\ result' = "err"
               /\ DxfFacade_load_error(error'[1]) = "InvalidDocument"
       /\ status' # "panicked"]_vars

\* ---------------------------------------------------------------------------------------
\* zcad-engine: the Scene and its selection.
\* ---------------------------------------------------------------------------------------

MaxSceneEntities == 7

\* Document::add_circle.
add_circle(d, center, radius, layer) ==
    push_entity(ensure_layer(d, layer),
                [kind |-> "Circle", center |-> center, radius |-> radius, layer |-> layer])

\* Document::add_text.
add_text(d, insert, content, height, rotation, layer) ==
    push_entity(ensure_layer(d, layer),
                [kind |-> "Text", insert |-> insert, content |-> content, height |-> height,
                 rotation |-> rotation, layer |-> layer])

\* Bounds2D::center: (min + max) * 0.5. The lengths of the scenes are counted in halves
\* and the documents loaded have even coordinates, so that the half is exact.
Bounds2D_center(b) ==
    <<(b.min[1] + b.max[1]) \div 2, (b.min[2] + b.max[2]) \div 2>>

EntityNotFound(id) ==
    [kind |-> "EntityNotFound", id |-> id]

\* Scene::reset.
Scene_reset(s) ==
    [document |-> Document_new, selected |-> {}, viewport |-> ViewportState_default]

\* Scene::load_document.
Scene_load_document(s, document) ==
    LET bounds == Document_bounds(document)
    IN  [document |-> document,
         selected |-> {},
         viewport |-> IF bounds # <<>>
                      THEN [ViewportState_default EXCEPT !.center = Bounds2D_center(bounds[1])]
                      ELSE ViewportState_default]

\* Scene::select with no look at the document.
Scene_select_unchecked(s, id) ==
    [scene |-> [s EXCEPT !.selected = @ \cup {id}], ret |-> [tag |-> "Ok"]]

\* Scene::select.
Scene_select(s, id) ==
    IF Document_entity(s.document, id) = <<>>
    THEN [scene |-> s, ret |-> [tag |-> "Err", error |-> EntityNotFound(id)]]
    ELSE [scene |-> [s EXCEPT !.selected = @ \cup {id}], ret |-> [tag |-> "Ok"]]

\* Scene::deselect: whether the id was selected.
Scene_deselect(s, id) ==
    [scene |-> [s EXCEPT !.selected = @ \ {id}], ret |-> [tag |-> "Bool", value |-> id \in s.selected]]

\* Scene::toggle_selection: Ok(whether the id is selected now). HashSet::insert returns
\* false for an id already in the set, which is then removed.
Scene_toggle_selection(s, id) ==
    IF Document_entity(s.document, id) = <<>>
    THEN [scene |-> s, ret |-> [tag |-> "Err", error |-> EntityNotFound(id)]]
    ELSE IF id \in s.selected
    THEN [scene |-> [s EXCEPT !.selected = @ \ {id}], ret |-> [tag |-> "Ok", value |-> FALSE]]
    ELSE [scene |-> [s EXCEPT !.selected = @ \cup {id}], ret |-> [tag |-> "Ok", value |-> TRUE]]

\* Scene::clear_selection.
Scene_clear_selection(s) ==
    [s EXCEPT !.selected = {}]

\* Scene::populate_demo, the lengths in halves (the radius 12.5 of the circle is 25).
Scene_populate_demo(s) ==
    LET baseline == add_line(s.document, <<0, 0>>, <<200, 0>>, "0")
        circle == add_circle(baseline.doc, <<100, 50>>, 25, "ANNOT")
        arc == add_arc(circle.doc, <<40, 20>>, 15, to_radians(0), to_radians(90), "ANNOT")
        polyline == add_polyline(arc.doc, <<(<<0, 20>>), (<<20, 40>>), (<<50, 10>>)>>, FALSE,
                                 "SKETCH")
        label == add_text(polyline.doc, <<10, 24>>, "Rust demo", 7, to_radians(45), "ANNOT")
    IN  [scene |-> [Scene_clear_selection(s) EXCEPT !.document = label.doc],
         ret |-> [tag |-> "DemoEntities", baseline |-> baseline.id, circle |-> circle.id,
                  arc |-> arc.id, polyline |-> polyline.id, label |-> label.id]]

\* The ids a client selects with: those of the entities a scene can hold and one more.
SceneIds == 0..MaxSceneEntities

\* The documents a client loads: an empty one, one of one line and one of two lines.
SceneDocuments ==
    LET one == add_line(Document_new, <<0, 0>>, <<4, 2>>, "GEOM").doc
    IN  {Document_new, one, add_line(one, <<-2, 0>>, <<0, 6>>, "GEOM").doc}

InitScene == InitDoc

\* A Scene operation has run: the scene after it, the call and what it returned.
SceneCalled(s, call, value) ==
    /\ scene' = s
    /\ rcall' = call
    /\ ret' = value
    /\ UNCHANGED <<fileVars, source, reader, trail, status, parseVars>>

SceneSelect ==
    /\ \E id \in SceneIds :
           LET r == Scene_select(scene, id)
           IN  SceneCalled(r.scene, [op |-> "select", id |-> id], r.ret)

SceneToggleSelection ==
    /\ \E id \in SceneIds :
           LET r == Scene_toggle_selection(scene, id)
           IN  SceneCalled(r.scene, [op |-> "toggle_selection", id |-> id], r.ret)

SceneDeselect ==
    /\ \E id \in SceneIds :
           LET r == Scene_deselect(scene, id)
           IN  SceneCalled(r.scene, [op |-> "deselect", id |-> id], r.ret)

SceneClearSelection ==
    /\ SceneCalled(Scene_clear_selection(scene), [op |-> "clear_selection"], [tag |-> "Unit"])

ScenePopulateDemo ==
    /\ Len(scene.document.entities) + 5 <= MaxSceneEntities
    /\ LET r == Scene_populate_demo(scene)
       IN  SceneCalled(r.scene, [op |-> "populate_demo"], r.ret)

SceneLoadDocument ==
    /\ \E document \in SceneDocuments :
           SceneCalled(Scene_load_document(scene, document), [op |-> "load_document"],
                       [tag |-> "Unit"])

SceneReset ==
    /\ SceneCalled(Scene_reset(scene), [op |-> "reset"], [tag |-> "Unit"])

NextScene ==
    \/ SceneSelect
    \/ SceneToggleSelection
    \/ SceneDeselect
    \/ SceneClearSelection
    \/ ScenePopulateDemo
    \/ SceneLoadDocument
    \/ SceneReset

SpecScene == InitScene /\ [][NextScene]_vars

\* C39: after any sequence of select, toggle_selection, deselect, clear_selection,
\* populate_demo, load_document and reset, every selected id is the id of an entity of the
\* scene's current document; and select or toggle_selection with an id the document does
\* not hold returns EntityNotFound and leaves the scene as it was.
C39_SelectionWithinDocument ==
    /\ [](\A id \in scene.selected : Document_entity(scene.document, id) # <<>>)
    /\ [][(/\ rcall'.op \in {"select", "toggle_selection"}
           /\ Document_entity(scene.document, rcall'.id) = <<>>)
            => /\ ret' = [tag |-> "Err", error |-> EntityNotFound(rcall'.id)]
               /\ scene' = scene]_vars

\* C39 witness: the demo entities were added to a loaded document of two lines, two of
\* them are selected, and a toggle_selection with an unknown id has just failed.
C39_Witness ==
    /\ Len(scene.document.entities) = 7
    /\ scene.selected = {1, 6}
    /\ rcall = [op |-> "toggle_selection", id |-> 7]
    /\ ret = [tag |-> "Err", error |-> EntityNotFound(7)]

\* ---------------------------------------------------------------------------------------
\* The order of the records of the OBJECTS section.
\* ---------------------------------------------------------------------------------------

MaxObjectRecords == 4

\* What the sub-parsers return for the records of a section in which every object has a
\* handle of its own and one dictionary is owned by "0": the root dictionary, the image
\* dictionary it names, an image definition, two reactors owned by that definition and
\* the raster variables the root dictionary names.
ObjectRecords ==
    {[tag |-> "DICTIONARY",
      value |-> [handle |-> "D0", owner |-> "0",
                 entries |-> <<[name |-> "ACAD_IMAGE_DICT", handle |-> "D1"],
                               [name |-> "ACAD_IMAGE_VARS", handle |-> "V1"]>>]],
     [tag |-> "DICTIONARY",
      value |-> [handle |-> "D1", owner |-> "D0",
                 entries |-> <<[name |-> "A", handle |-> "I1"]>>]],
     [tag |-> "IMAGEDEF",
      value |-> [handle |-> "I1", name |-> None, file_path |-> "a.png"]],
     [tag |-> "IMAGEDEF_REACTOR",
      value |-> [handle |-> "R1", class_version |-> 2, owner_handle |-> "I1",
                 image_handle |-> None]],
     [tag |-> "IMAGEDEF_REACTOR",
      value |-> [handle |-> "R2", class_version |-> 2, owner_handle |-> "I1",
                 image_handle |-> None]],
     [tag |-> "RASTERVARIABLES",
      value |-> <<"V1", [handle |-> <<"V1">>, class_version |-> <<0>>, frame |-> <<1>>,
                         quality |-> <<1>>, units |-> <<0>>]>>]}

\* The sections: up to MaxObjectRecords of the records, each at most once, in any order.
ObjectFiles ==
    UNION {{f \in [1..n -> ObjectRecords] : \A i, j \in 1..n : f[i] = f[j] => i = j} :
            n \in 0..MaxObjectRecords}

\* One turn of the loop of parse_objects: the tag of the record is read and the
\* sub-parser called for it returns Ok(record.value).
objects_record(m, record) ==
    Return(parse_objects(m, OkSome(0, record.tag)), record.value)

RECURSIVE objects_records(_, _)
\* The turns of the loop for the records of a section, in order.
objects_records(m, records) ==
    IF records = <<>> THEN m
    ELSE objects_records(objects_record(m, Head(records)), Tail(records))

\* DxfParser::parse_objects on a whole section: the records, then ENDSEC.
objects_section(records) ==
    parse_objects(objects_records(InObjects, records), OkSome(0, "ENDSEC"))

InitObjectOrder ==
    /\ doc = Document_new
    /\ returned = <<>>
    /\ file \in ObjectFiles
    /\ fpos = 0
    /\ ReaderIdle
    /\ stack = InObjects.stack
    /\ result = "running"
    /\ error = <<>>
    /\ raised = {}
    /\ saw_eof = FALSE
    /\ exhausted = FALSE
    /\ SceneIdle

\* The machine m after one more record of the section.
RecordDone(m) ==
    /\ stack' = IF m.status = "ok" /\ m.result = "running" THEN m.stack ELSE <<>>
    /\ doc' = m.doc
    /\ status' = m.status
    /\ result' = m.result
    /\ error' = m.error
    /\ raised' = m.raised
    /\ saw_eof' = m.saw_eof
    /\ fpos' = fpos + 1
    /\ UNCHANGED <<returned, file, reader, clientVars, exhausted, scene>>

ObjectRecord ==
    /\ At("parse_objects", "loop")
    /\ fpos < Len(file)
    /\ RecordDone(objects_record(Machine, file[fpos + 1]))

ObjectsEndsec ==
    /\ At("parse_objects", "loop")
    /\ fpos = Len(file)
    /\ RecordDone(parse_objects(Machine, OkSome(0, "ENDSEC")))

NextObjectOrder ==
    \/ ObjectRecord
    \/ ObjectsEndsec

SpecObjectOrder == InitObjectOrder /\ [][NextObjectOrder]_vars

\* The orders of the records of a section.
Reorderings(records) ==
    {[i \in 1..Len(records) |-> records[p[i]]] :
        p \in {q \in [1..Len(records) -> 1..Len(records)] :
                \A i, j \in 1..Len(records) : q[i] = q[j] => i = j}}

\* C40: once parse_objects has returned, the image dictionary and the raster variables
\* of the Document are those that every other order of the records of the section
\* gives (the handles are unique and one dictionary is owned by "0").
C40_OrderIndependent ==
    (fpos = Len(file) + 1 /\ result = "running")
        => \A other \in Reorderings(file) :
            /\ objects_section(other).doc.image_dictionary = doc.image_dictionary
            /\ objects_section(other).doc.raster_image_variables = doc.raster_image_variables

=============================================================================
